---- MODULE Spec2Model ----
(***************************************************************************)
(* AtMark: the offline-first local store (src/src/storage/storage.ts) and  *)
(* its cloud synchronisation engine (src/src/storage/syncManager.ts),      *)
(* with the remote tables of src/PRODUCTION_SCHEMA_V2.sql.                 *)
(*                                                                         *)
(* Every device holds a WatermelonDB store (classes, students, attendance).*)
(* A table is a sequence of rows in insertion order: SQLite returns the    *)
(* rows of an unsorted query in rowid order, so `rows[0]` of a query is    *)
(* the oldest matching row, and created_at order is insertion order.       *)
(* Timestamps other than that order are not modelled.                      *)
(***************************************************************************)
EXTENDS Naturals, Sequences, FiniteSets, TLC

\* ------------------------------------------------------------------ bounds
MaxClassId == 2
MaxStudentId == 2
MaxAttId == 4
MaxRoster == 2
\* The two-device specification creates fewer rows.
MaxTwoClassId == 1
MaxTwoAttId == 2
\* The syncToCloud, addClass or addStudent calls that can be running at one time.
MaxCalls == 2

Devices == {"devA", "devB"}
Users == {"u1"}
NoUser == "none"
Names == {"A", "B"}
Rolls == {"R1", "R2"}
Dates == {"2025-01-10", "2025-01-11"}
Calls == 1..MaxCalls
\* The components that call onSyncStatusChange: SyncIndicator and DashboardScreen.
Subscribers == {"indicator", "dashboard"}

VARIABLES
  session,      \* device -> user id of '@user_session' / supabase auth, or NoUser
  classes,      \* device -> sequence of Class rows
  students,     \* device -> sequence of Student rows
  attendance,   \* device -> sequence of Attendance rows (visible to queries)
  attTomb,      \* device -> ids of attendance rows marked as deleted (_status = 'deleted')
  rClasses,     \* remote table classes (set of rows, primary key id)
  rStudents,    \* remote table students
  rAttendance,  \* remote table attendance
  isSyncing,    \* device -> SyncManager.isSyncing
  isOnline,     \* device -> SyncManager.isOnline
  lastSync,     \* device -> whether LAST_SYNC_KEY has been written
  pushUser,     \* device -> the userId a running syncToCloud has read
  nextId,       \* next fresh identifier of each table (UUIDs are never reused)
  lastOp,       \* the last call and its outcome
  deleting,     \* device -> the deleteClass call that is inside database.write, or NoDelete
  replacing,    \* device -> the setStudents call that is inside database.write, or NoReplace
  syncCalls,    \* device -> call -> where a syncToCloud call stands, and the userId it read
  adding,       \* device -> call -> the addClass or addStudent call between query and write
  syncCallbacks,\* device -> the subscribers in SyncManager.syncCallbacks
  heard         \* device -> subscriber -> the last status its callback was called with

vars == <<session, classes, students, attendance, attTomb, rClasses, rStudents,
          rAttendance, isSyncing, isOnline, lastSync, pushUser, nextId, lastOp,
          deleting, replacing, syncCalls, adding, syncCallbacks, heard>>

localVars == <<classes, students, attendance, attTomb>>
remoteVars == <<rClasses, rStudents, rAttendance>>
syncVars == <<isSyncing, isOnline, lastSync, pushUser>>
asyncVars == <<syncCalls, adding, syncCallbacks, heard>>

\* ------------------------------------------------------------------ helpers
Range(s) == {s[i] : i \in DOMAIN s}

Ids(s) == {s[i].id : i \in DOMAIN s}

RowOf(s, id) == CHOOSE r \in Range(s) : r.id = id

\* The assignments of an update callback: the named fields get new values.
SetFields(r, fields) ==
  [k \in DOMAIN r |-> IF k \in DOMAIN fields THEN fields[k] ELSE r[k]]

\* Model.update(): the row with this id is changed in place.
UpdateRow(s, id, fields) ==
  [i \in DOMAIN s |-> IF s[i].id = id THEN SetFields(s[i], fields) ELSE s[i]]

\* Model.update() on every row of a set of ids.
UpdateRows(s, ids, fields) ==
  [i \in DOMAIN s |-> IF s[i].id \in ids THEN SetFields(s[i], fields) ELSE s[i]]

\* The delete operations left out of the batch: every row stays.
RemoveNoRows(s, ids) == s

\* prepareMarkAsDeleted(): the rows leave every query result.
RemoveRows(s, ids) == SelectSeq(s, LAMBDA r : r.id \notin ids)

\* The outcome of a call; the arguments are kept for a call that succeeded.
\* `again` tells that the call repeats the call before it (kept for saveAttendance).
Op(op, res, args) == [op |-> op, res |-> res, args |-> args, again |-> FALSE]

\* The user id that falls back on a fixed account when no session is stored.
getCurrentUserIdOrDefault(d) == IF session[d] = NoUser THEN "u1" ELSE session[d]

\* getCurrentUserId of storage.ts: the userId of '@user_session', or null.
getCurrentUserId(d) == session[d]

\* The class query without its is_deleted filter: soft-deleted classes match too.
ClassesNamedWithDeleted(d, u, n) ==
  SelectSeq(classes[d], LAMBDA c : c.userId = u /\ c.name = n)

\* The class query without its user_id filter: the classes of every owner match.
ActiveClassesNamedOfAnyOwner(d, u, n) ==
  SelectSeq(classes[d], LAMBDA c : c.name = n /\ ~c.isDeleted)

\* The query Q.where('user_id', u), Q.where('name', n), Q.where('is_deleted', false).
ActiveClassesNamed(d, u, n) ==
  SelectSeq(classes[d], LAMBDA c : c.userId = u /\ c.name = n /\ ~c.isDeleted)

\* The query Q.where('class_id', cid), Q.where('is_deleted', false).
ActiveStudentsOf(d, cid) ==
  SelectSeq(students[d], LAMBDA s : s.classId = cid /\ ~s.isDeleted)

\* The roll number query without its is_deleted filter.
StudentsWithRollWithDeleted(d, cid, r) ==
  SelectSeq(students[d], LAMBDA s : s.classId = cid /\ s.rollNumber = r)

\* The query Q.where('class_id', cid), Q.where('roll_number', r), Q.where('is_deleted', false).
ActiveStudentsWithRoll(d, cid, r) ==
  SelectSeq(students[d], LAMBDA s : s.classId = cid /\ s.rollNumber = r /\ ~s.isDeleted)

\* The query Q.where('class_id', cid), Q.where('date', dt).
AttendanceOn(d, cid, dt) ==
  SelectSeq(attendance[d], LAMBDA a : a.classId = cid /\ a.date = dt)

\* ------------------------------------------------------------------ reads
\* getClasses: the names of the owner's active classes, by creation time.
getClasses(d) ==
  IF getCurrentUserId(d) = NoUser THEN <<>>
  ELSE LET cs == SelectSeq(classes[d],
                   LAMBDA c : c.userId = getCurrentUserId(d) /\ ~c.isDeleted)
       IN [i \in DOMAIN cs |-> cs[i].name]

\* ------------------------------------------------------------------ state
\* No deleteClass call is inside its database.write block (identifiers start at 1).
NoDelete == [name |-> "", classId |-> 0, todo |-> <<>>, all |-> {}]

\* A syncToCloud call that has not started or has returned.
NoCall == [pc |-> "idle", userId |-> NoUser]

\* No addClass or addStudent call is between its query and its write.
NoAdd ==
  [op |-> "", userId |-> NoUser, classId |-> 0, className |-> "", rollNumber |-> "",
   name |-> ""]

\* No setStudents call is inside its database.write block.
NoReplace == [name |-> "", classId |-> 0, todo |-> <<>>, all |-> {}, list |-> <<>>]

Init ==
  /\ session = [d \in Devices |-> NoUser]
  /\ classes = [d \in Devices |-> <<>>]
  /\ students = [d \in Devices |-> <<>>]
  /\ attendance = [d \in Devices |-> <<>>]
  /\ attTomb = [d \in Devices |-> {}]
  /\ rClasses = {}
  /\ rStudents = {}
  /\ rAttendance = {}
  /\ isSyncing = [d \in Devices |-> FALSE]
  /\ isOnline = [d \in Devices |-> FALSE]
  /\ lastSync = [d \in Devices |-> FALSE]
  /\ pushUser = [d \in Devices |-> NoUser]
  /\ nextId = [classes |-> 1, students |-> 1, attendance |-> 1]
  /\ lastOp = Op("init", "ok", <<>>)
  /\ deleting = [d \in Devices |-> NoDelete]
  /\ replacing = [d \in Devices |-> NoReplace]
  /\ syncCalls = [d \in Devices |-> [k \in Calls |-> NoCall]]
  /\ adding = [d \in Devices |-> [k \in Calls |-> NoAdd]]
  /\ syncCallbacks = [d \in Devices |-> {}]
  /\ heard = [d \in Devices |-> [cb \in Subscribers |-> "nothing"]]

\* ------------------------------------------------------------------ classes
addClass(d, name) ==
  LET userId == getCurrentUserId(d)
      existing == ActiveClassesNamed(d, userId, name)
  IN /\ IF userId = NoUser
        THEN /\ lastOp' = Op("addClass", "NotAuthenticated", <<>>)
             /\ UNCHANGED <<classes, nextId>>
        ELSE IF Len(existing) > 0
        THEN /\ lastOp' = Op("addClass", "DuplicateName", <<>>)
             /\ UNCHANGED <<classes, nextId>>
        ELSE /\ nextId.classes <= MaxClassId
             /\ classes' = [classes EXCEPT ![d] = Append(@,
                   [id |-> nextId.classes, userId |-> userId, name |-> name,
                    isDeleted |-> FALSE])]
             /\ nextId' = [nextId EXCEPT !.classes = @ + 1]
             /\ lastOp' = Op("addClass", "ok", <<d, name>>)
     /\ UNCHANGED <<session, students, attendance, attTomb, remoteVars, syncVars, deleting, replacing, asyncVars>>

\* addClass step by step, for calls that run at the same time. First the part before
\* database.write: the session and the query of the active classes of that name.
addClassQuery(d, k, name) ==
  LET userId == getCurrentUserId(d)
      existing == ActiveClassesNamed(d, userId, name)
  IN /\ adding[d][k] = NoAdd
     /\ IF userId = NoUser
        THEN /\ lastOp' = Op("addClass", "NotAuthenticated", <<>>)
             /\ UNCHANGED adding
        ELSE IF Len(existing) > 0
        THEN /\ lastOp' = Op("addClass", "DuplicateName", <<>>)
             /\ UNCHANGED adding
        ELSE /\ adding' = [adding EXCEPT ![d][k] =
                   [NoAdd EXCEPT !.op = "addClass", !.userId = userId, !.className = name]]
             /\ lastOp' = Op("addClass", "started", <<>>)
     /\ UNCHANGED <<session, localVars, remoteVars, syncVars, nextId, deleting, replacing,
                    syncCalls, syncCallbacks, heard>>

\* The database.write block of the call: the row is created.
addClassWrite(d, k) ==
  /\ adding[d][k].op = "addClass"
  /\ nextId.classes <= MaxClassId
  /\ classes' = [classes EXCEPT ![d] = Append(@,
        [id |-> nextId.classes, userId |-> adding[d][k].userId,
         name |-> adding[d][k].className, isDeleted |-> FALSE])]
  /\ nextId' = [nextId EXCEPT !.classes = @ + 1]
  /\ adding' = [adding EXCEPT ![d][k] = NoAdd]
  /\ lastOp' = Op("addClass", "ok", <<d, adding[d][k].className>>)
  /\ UNCHANGED <<session, students, attendance, attTomb, remoteVars, syncVars, deleting,
                 replacing, syncCalls, syncCallbacks, heard>>

renameClass(d, oldName, newName) ==
  LET userId == getCurrentUserId(d)
      existing == ActiveClassesNamed(d, userId, newName)
      classToRename == ActiveClassesNamed(d, userId, oldName)
  IN /\ IF oldName = "" \/ newName = ""
        THEN /\ lastOp' = Op("renameClass", "EmptyName", <<>>)
             /\ UNCHANGED classes
        ELSE IF oldName = newName
        THEN /\ lastOp' = Op("renameClass", "noop", <<>>)
             /\ UNCHANGED classes
        ELSE IF userId = NoUser
        THEN /\ lastOp' = Op("renameClass", "NotAuthenticated", <<>>)
             /\ UNCHANGED classes
        ELSE IF Len(existing) > 0
        THEN /\ lastOp' = Op("renameClass", "DuplicateName", <<>>)
             /\ UNCHANGED classes
        ELSE IF Len(classToRename) = 0
        THEN /\ lastOp' = Op("renameClass", "NotFound", <<>>)
             /\ UNCHANGED classes
        ELSE /\ classes' = [classes EXCEPT ![d] =
                   UpdateRow(@, classToRename[1].id, [name |-> newName])]
             /\ lastOp' = Op("renameClass", "ok", <<d, oldName, newName>>)
     /\ UNCHANGED <<session, students, attendance, attTomb, remoteVars, syncVars, nextId, deleting, replacing, asyncVars>>

\* The deleteClass that returns, as deleteStudent does, when the class is not found.
deleteClassIfExists(d, name) ==
  LET userId == getCurrentUserId(d)
      classToDelete == ActiveClassesNamed(d, userId, name)
  IN /\ IF userId = NoUser
        THEN /\ lastOp' = Op("deleteClass", "NotAuthenticated", <<>>)
             /\ UNCHANGED <<classes, students>>
        ELSE IF Len(classToDelete) = 0
        THEN /\ lastOp' = Op("deleteClass", "noop", <<>>)
             /\ UNCHANGED <<classes, students>>
        ELSE LET classRecord == classToDelete[1]
                 studs == Ids(ActiveStudentsOf(d, classRecord.id))
             IN /\ students' = [students EXCEPT ![d] =
                      UpdateRows(@, studs, [isDeleted |-> TRUE])]
                /\ classes' = [classes EXCEPT ![d] =
                      UpdateRow(@, classRecord.id, [isDeleted |-> TRUE])]
                /\ lastOp' = Op("deleteClass", "ok", <<d, name>>)
     /\ UNCHANGED <<session, attendance, attTomb, remoteVars, syncVars, nextId, deleting, replacing, asyncVars>>

deleteClass(d, name) ==
  LET userId == getCurrentUserId(d)
      classToDelete == ActiveClassesNamed(d, userId, name)
  IN /\ IF userId = NoUser
        THEN /\ lastOp' = Op("deleteClass", "NotAuthenticated", <<>>)
             /\ UNCHANGED <<classes, students>>
        ELSE IF Len(classToDelete) = 0
        THEN /\ lastOp' = Op("deleteClass", "NotFound", <<>>)
             /\ UNCHANGED <<classes, students>>
        ELSE LET classRecord == classToDelete[1]
                 studs == Ids(ActiveStudentsOf(d, classRecord.id))
             IN /\ students' = [students EXCEPT ![d] =
                      UpdateRows(@, studs, [isDeleted |-> TRUE])]
                /\ classes' = [classes EXCEPT ![d] =
                      UpdateRow(@, classRecord.id, [isDeleted |-> TRUE])]
                /\ lastOp' = Op("deleteClass", "ok", <<d, name>>)
     /\ UNCHANGED <<session, attendance, attTomb, remoteVars, syncVars, nextId, deleting, replacing, asyncVars>>

\* deleteClass as far as the start of its database.write block: the checks, the
\* class lookup and the query for the active students of the class. A second writer
\* waits until the block of the first has ended.
deleteClassBegin(d, name) ==
  LET userId == getCurrentUserId(d)
      classToDelete == ActiveClassesNamed(d, userId, name)
  IN /\ deleting[d] = NoDelete
     /\ IF userId = NoUser
        THEN /\ lastOp' = Op("deleteClass", "NotAuthenticated", <<>>)
             /\ UNCHANGED deleting
        ELSE IF Len(classToDelete) = 0
        THEN /\ lastOp' = Op("deleteClass", "NotFound", <<>>)
             /\ UNCHANGED deleting
        ELSE LET studs == ActiveStudentsOf(d, classToDelete[1].id)
             IN /\ deleting' = [deleting EXCEPT ![d] =
                      [name |-> name, classId |-> classToDelete[1].id,
                       todo |-> [i \in DOMAIN studs |-> studs[i].id],
                       all |-> Ids(studs)]]
                /\ lastOp' = Op("deleteClass", "started", <<>>)
     /\ UNCHANGED <<session, localVars, remoteVars, syncVars, nextId, replacing, asyncVars>>

\* One turn of the loop `for (const student of students) await student.update(...)`:
\* the update is written to the database when it is awaited.
deleteClassStudent(d) ==
  /\ deleting[d] # NoDelete
  /\ deleting[d].todo # <<>>
  /\ students' = [students EXCEPT ![d] =
        UpdateRow(@, Head(deleting[d].todo), [isDeleted |-> TRUE])]
  /\ deleting' = [deleting EXCEPT ![d].todo = Tail(@)]
  /\ UNCHANGED <<session, classes, attendance, attTomb, remoteVars, syncVars, nextId, lastOp,
                 replacing, asyncVars>>

\* The end of the block: classRecord.update marks the class as deleted.
deleteClassEnd(d) ==
  /\ deleting[d] # NoDelete
  /\ deleting[d].todo = <<>>
  /\ classes' = [classes EXCEPT ![d] =
        UpdateRow(@, deleting[d].classId, [isDeleted |-> TRUE])]
  /\ deleting' = [deleting EXCEPT ![d] = NoDelete]
  /\ lastOp' = Op("deleteClass", "ok", <<d, deleting[d].name>>)
  /\ UNCHANGED <<session, students, attendance, attTomb, remoteVars, syncVars, nextId,
                 replacing, asyncVars>>

\* ------------------------------------------------------------------ students
\* The rows prepareCreate makes for a roster, with fresh identifiers in list order.
NewStudents(list, classId, first) ==
  [i \in DOMAIN list |->
     [id |-> first + i - 1, classId |-> classId, rollNumber |-> list[i].rollNumber,
      name |-> list[i].name, isDeleted |-> FALSE]]

RollsOf(list) == {list[i].rollNumber : i \in DOMAIN list}

setStudents(d, className, list) ==
  LET userId == getCurrentUserId(d)
      classRecords == ActiveClassesNamed(d, userId, className)
  IN /\ IF userId = NoUser
        THEN /\ lastOp' = Op("setStudents", "NotAuthenticated", <<>>)
             /\ UNCHANGED <<students, nextId>>
        ELSE IF Len(classRecords) = 0
        THEN /\ lastOp' = Op("setStudents", "NotFound", <<>>)
             /\ UNCHANGED <<students, nextId>>
        ELSE LET classId == classRecords[1].id
                 existingStudents == Ids(ActiveStudentsOf(d, classId))
             IN /\ nextId.students + Len(list) - 1 <= MaxStudentId
                /\ students' = [students EXCEPT ![d] =
                      UpdateRows(@, existingStudents, [isDeleted |-> TRUE])
                        \o NewStudents(list, classId, nextId.students)]
                /\ nextId' = [nextId EXCEPT !.students = @ + Len(list)]
                /\ lastOp' = Op("setStudents", "ok", <<d, className, list>>)
     /\ UNCHANGED <<session, classes, attendance, attTomb, remoteVars, syncVars, deleting, replacing, asyncVars>>

\* setStudents as far as the start of its database.write block and the query for the
\* active students of the class. A second writer waits until the block has ended.
setStudentsBegin(d, className, list) ==
  LET userId == getCurrentUserId(d)
      classRecords == ActiveClassesNamed(d, userId, className)
  IN /\ replacing[d] = NoReplace
     /\ IF userId = NoUser
        THEN /\ lastOp' = Op("setStudents", "NotAuthenticated", <<>>)
             /\ UNCHANGED replacing
        ELSE IF Len(classRecords) = 0
        THEN /\ lastOp' = Op("setStudents", "NotFound", <<>>)
             /\ UNCHANGED replacing
        ELSE LET existingStudents == ActiveStudentsOf(d, classRecords[1].id)
             IN /\ nextId.students + Len(list) - 1 <= MaxStudentId
                /\ replacing' = [replacing EXCEPT ![d] =
                      [name |-> className, classId |-> classRecords[1].id,
                       todo |-> [i \in DOMAIN existingStudents |-> existingStudents[i].id],
                       all |-> Ids(existingStudents), list |-> list]]
                /\ lastOp' = Op("setStudents", "started", <<>>)
     /\ UNCHANGED <<session, localVars, remoteVars, syncVars, nextId, deleting, asyncVars>>

\* One turn of the loop `for (const student of existingStudents) await
\* student.update(...)`: the update is written to the database when it is awaited.
setStudentsStudent(d) ==
  /\ replacing[d] # NoReplace
  /\ replacing[d].todo # <<>>
  /\ students' = [students EXCEPT ![d] =
        UpdateRow(@, Head(replacing[d].todo), [isDeleted |-> TRUE])]
  /\ replacing' = [replacing EXCEPT ![d].todo = Tail(@)]
  /\ UNCHANGED <<session, classes, attendance, attTomb, remoteVars, syncVars, nextId, lastOp,
                 deleting, asyncVars>>

\* The end of the block: database.batch creates the rows of the new roster.
setStudentsEnd(d) ==
  /\ replacing[d] # NoReplace
  /\ replacing[d].todo = <<>>
  /\ students' = [students EXCEPT ![d] =
        @ \o NewStudents(replacing[d].list, replacing[d].classId, nextId.students)]
  /\ nextId' = [nextId EXCEPT !.students = @ + Len(replacing[d].list)]
  /\ replacing' = [replacing EXCEPT ![d] = NoReplace]
  /\ lastOp' = Op("setStudents", "ok", <<d, replacing[d].name, replacing[d].list>>)
  /\ UNCHANGED <<session, classes, attendance, attTomb, remoteVars, syncVars, deleting,
                 asyncVars>>

addStudent(d, className, rollNumber, name) ==
  LET userId == getCurrentUserId(d)
      classRecords == ActiveClassesNamed(d, userId, className)
  IN /\ IF userId = NoUser
        THEN /\ lastOp' = Op("addStudent", "NotAuthenticated", <<>>)
             /\ UNCHANGED <<students, nextId>>
        ELSE IF Len(classRecords) = 0
        THEN /\ lastOp' = Op("addStudent", "NotFound", <<>>)
             /\ UNCHANGED <<students, nextId>>
        ELSE IF Len(ActiveStudentsWithRoll(d, classRecords[1].id, rollNumber)) > 0
        THEN /\ lastOp' = Op("addStudent", "DuplicateRollNumber", <<>>)
             /\ UNCHANGED <<students, nextId>>
        ELSE /\ nextId.students <= MaxStudentId
             /\ students' = [students EXCEPT ![d] = Append(@,
                   [id |-> nextId.students, classId |-> classRecords[1].id,
                    rollNumber |-> rollNumber, name |-> name, isDeleted |-> FALSE])]
             /\ nextId' = [nextId EXCEPT !.students = @ + 1]
             /\ lastOp' = Op("addStudent", "ok", <<d, className, rollNumber>>)
     /\ UNCHANGED <<session, classes, attendance, attTomb, remoteVars, syncVars, deleting, replacing, asyncVars>>

\* addStudent step by step: first the session and the two queries.
addStudentQuery(d, k, className, rollNumber, name) ==
  LET userId == getCurrentUserId(d)
      classRecords == ActiveClassesNamed(d, userId, className)
  IN /\ adding[d][k] = NoAdd
     /\ IF userId = NoUser
        THEN /\ lastOp' = Op("addStudent", "NotAuthenticated", <<>>)
             /\ UNCHANGED adding
        ELSE IF Len(classRecords) = 0
        THEN /\ lastOp' = Op("addStudent", "NotFound", <<>>)
             /\ UNCHANGED adding
        ELSE IF Len(ActiveStudentsWithRoll(d, classRecords[1].id, rollNumber)) > 0
        THEN /\ lastOp' = Op("addStudent", "DuplicateRollNumber", <<>>)
             /\ UNCHANGED adding
        ELSE /\ adding' = [adding EXCEPT ![d][k] =
                   [op |-> "addStudent", userId |-> userId,
                    classId |-> classRecords[1].id, className |-> className,
                    rollNumber |-> rollNumber, name |-> name]]
             /\ lastOp' = Op("addStudent", "started", <<>>)
     /\ UNCHANGED <<session, localVars, remoteVars, syncVars, nextId, deleting, replacing,
                    syncCalls, syncCallbacks, heard>>

\* The database.write block of the call: the row is created.
addStudentWrite(d, k) ==
  /\ adding[d][k].op = "addStudent"
  /\ nextId.students <= MaxStudentId
  /\ students' = [students EXCEPT ![d] = Append(@,
        [id |-> nextId.students, classId |-> adding[d][k].classId,
         rollNumber |-> adding[d][k].rollNumber, name |-> adding[d][k].name,
         isDeleted |-> FALSE])]
  /\ nextId' = [nextId EXCEPT !.students = @ + 1]
  /\ adding' = [adding EXCEPT ![d][k] = NoAdd]
  /\ lastOp' = Op("addStudent", "ok",
                  <<d, adding[d][k].className, adding[d][k].rollNumber>>)
  /\ UNCHANGED <<session, classes, attendance, attTomb, remoteVars, syncVars, deleting,
                 replacing, syncCalls, syncCallbacks, heard>>

updateStudentName(d, className, rollNumber, newName) ==
  LET userId == getCurrentUserId(d)
      classRecords == ActiveClassesNamed(d, userId, className)
  IN /\ IF userId = NoUser
        THEN /\ lastOp' = Op("updateStudentName", "NotAuthenticated", <<>>)
             /\ UNCHANGED students
        ELSE IF Len(classRecords) = 0
        THEN /\ lastOp' = Op("updateStudentName", "noop", <<>>)
             /\ UNCHANGED students
        ELSE LET studs == ActiveStudentsWithRoll(d, classRecords[1].id, rollNumber)
             IN IF Len(studs) > 0
                THEN /\ students' = [students EXCEPT ![d] =
                           UpdateRow(@, studs[1].id, [name |-> newName])]
                     /\ lastOp' = Op("updateStudentName", "ok", <<d, className, rollNumber>>)
                ELSE /\ lastOp' = Op("updateStudentName", "noop", <<>>)
                     /\ UNCHANGED students
     /\ UNCHANGED <<session, classes, attendance, attTomb, remoteVars, syncVars, nextId, deleting, replacing, asyncVars>>

deleteStudent(d, className, rollNumber) ==
  LET userId == getCurrentUserId(d)
      classRecords == ActiveClassesNamed(d, userId, className)
  IN /\ IF userId = NoUser
        THEN /\ lastOp' = Op("deleteStudent", "NotAuthenticated", <<>>)
             /\ UNCHANGED students
        ELSE IF Len(classRecords) = 0
        THEN /\ lastOp' = Op("deleteStudent", "noop", <<>>)
             /\ UNCHANGED students
        ELSE LET studs == ActiveStudentsWithRoll(d, classRecords[1].id, rollNumber)
             IN IF Len(studs) > 0
                THEN /\ students' = [students EXCEPT ![d] =
                           UpdateRow(@, studs[1].id, [isDeleted |-> TRUE])]
                     /\ lastOp' = Op("deleteStudent", "ok", <<d, className, rollNumber>>)
                ELSE /\ lastOp' = Op("deleteStudent", "noop", <<>>)
                     /\ UNCHANGED students
     /\ UNCHANGED <<session, classes, attendance, attTomb, remoteVars, syncVars, nextId, deleting, replacing, asyncVars>>

\* ------------------------------------------------------------------ attendance
\* The rows prepareCreate makes: one 'present' row per active student whose roll
\* number is in the present map, with fresh identifiers in roster order.
NewAttendance(present, classId, dateISO, first) ==
  [i \in DOMAIN present |->
     [id |-> first + i - 1, studentId |-> present[i].id, classId |-> classId,
      date |-> dateISO, status |-> "present"]]

\* The save that stores a row for every active student, 'absent' for those not in
\* the present map (the approach PRODUCTION_READY_SUMMARY.md reports as replaced).
saveAttendanceForEveryStudent(d, className, dateISO, presentMap) ==
  LET userId == getCurrentUserId(d)
      classRecords == ActiveClassesNamed(d, userId, className)
  IN /\ userId # NoUser
     /\ Len(classRecords) > 0
     /\ LET classId == classRecords[1].id
            studs == ActiveStudentsOf(d, classId)
            existingAttendance == Ids(AttendanceOn(d, classId, dateISO))
        IN /\ nextId.attendance + Len(studs) - 1 <= MaxAttId
           /\ attendance' = [attendance EXCEPT ![d] =
                 RemoveRows(@, existingAttendance)
                   \o [i \in DOMAIN studs |->
                        [id |-> nextId.attendance + i - 1, studentId |-> studs[i].id,
                         classId |-> classId, date |-> dateISO,
                         status |-> IF studs[i].rollNumber \in presentMap
                                    THEN "present" ELSE "absent"]]]
           /\ attTomb' = [attTomb EXCEPT ![d] = @ \cup existingAttendance]
           /\ nextId' = [nextId EXCEPT !.attendance = @ + Len(studs)]
           /\ lastOp' = Op("saveAttendance", "ok", <<d, className, dateISO, presentMap>>)
     /\ UNCHANGED <<session, classes, students, remoteVars, syncVars, deleting, replacing, asyncVars>>

saveAttendance(d, className, dateISO, presentMap) ==
  LET userId == getCurrentUserId(d)
      classRecords == ActiveClassesNamed(d, userId, className)
  IN /\ IF userId = NoUser
        THEN /\ lastOp' = Op("saveAttendance", "NotAuthenticated", <<>>)
             /\ UNCHANGED <<attendance, attTomb, nextId>>
        ELSE IF Len(classRecords) = 0
        THEN /\ lastOp' = Op("saveAttendance", "NotFound", <<>>)
             /\ UNCHANGED <<attendance, attTomb, nextId>>
        ELSE LET classId == classRecords[1].id
                 studs == ActiveStudentsOf(d, classId)
                 existingAttendance == Ids(AttendanceOn(d, classId, dateISO))
                 present == SelectSeq(studs, LAMBDA st : st.rollNumber \in presentMap)
             IN /\ nextId.attendance + Len(present) - 1 <= MaxAttId
                /\ attendance' = [attendance EXCEPT ![d] =
                      RemoveRows(@, existingAttendance)
                        \o NewAttendance(present, classId, dateISO, nextId.attendance)]
                /\ attTomb' = [attTomb EXCEPT ![d] = @ \cup existingAttendance]
                /\ nextId' = [nextId EXCEPT !.attendance = @ + Len(present)]
                /\ lastOp' = [Op("saveAttendance", "ok",
                                  <<d, className, dateISO, presentMap>>)
                                EXCEPT !.again =
                                  /\ lastOp.op = "saveAttendance"
                                  /\ lastOp.res = "ok"
                                  /\ lastOp.args = <<d, className, dateISO, presentMap>>]
     /\ UNCHANGED <<session, classes, students, remoteVars, syncVars, deleting, replacing, asyncVars>>

\* The deleteAttendance whose query leaves out the date: the rows of every date of
\* the class are marked as deleted.
deleteAttendanceOfEveryDate(d, className, dateISO) ==
  LET userId == getCurrentUserId(d)
      classRecords == ActiveClassesNamed(d, userId, className)
  IN /\ IF userId = NoUser
        THEN /\ lastOp' = Op("deleteAttendance", "NotAuthenticated", <<>>)
             /\ UNCHANGED <<attendance, attTomb>>
        ELSE IF Len(classRecords) = 0
        THEN /\ lastOp' = Op("deleteAttendance", "noop", <<>>)
             /\ UNCHANGED <<attendance, attTomb>>
        ELSE LET classId == classRecords[1].id
                 attendanceRecords ==
                   {a.id : a \in {r \in Range(attendance[d]) : r.classId = classId}}
             IN /\ attendance' = [attendance EXCEPT ![d] = RemoveRows(@, attendanceRecords)]
                /\ attTomb' = [attTomb EXCEPT ![d] = @ \cup attendanceRecords]
                /\ lastOp' = Op("deleteAttendance", "ok", <<d, className, dateISO>>)
     /\ UNCHANGED <<session, classes, students, remoteVars, syncVars, nextId, deleting, replacing, asyncVars>>

deleteAttendance(d, className, dateISO) ==
  LET userId == getCurrentUserId(d)
      classRecords == ActiveClassesNamed(d, userId, className)
  IN /\ IF userId = NoUser
        THEN /\ lastOp' = Op("deleteAttendance", "NotAuthenticated", <<>>)
             /\ UNCHANGED <<attendance, attTomb>>
        ELSE IF Len(classRecords) = 0
        THEN /\ lastOp' = Op("deleteAttendance", "noop", <<>>)
             /\ UNCHANGED <<attendance, attTomb>>
        ELSE LET classId == classRecords[1].id
                 attendanceRecords == Ids(AttendanceOn(d, classId, dateISO))
             IN /\ attendance' = [attendance EXCEPT ![d] = RemoveRows(@, attendanceRecords)]
                /\ attTomb' = [attTomb EXCEPT ![d] = @ \cup attendanceRecords]
                /\ lastOp' = Op("deleteAttendance", "ok", <<d, className, dateISO>>)
     /\ UNCHANGED <<session, classes, students, remoteVars, syncVars, nextId, deleting, replacing, asyncVars>>

\* getAttendance: the roll numbers of the students that have a row for the date.
\* studentsCollection.find throws for an unknown student id; the catch returns {}.
getAttendance(d, className, dateISO) ==
  LET userId == getCurrentUserId(d)
      classRecords == ActiveClassesNamed(d, userId, className)
  IN IF userId = NoUser \/ Len(classRecords) = 0 THEN {}
     ELSE LET attendanceRecords == Range(AttendanceOn(d, classRecords[1].id, dateISO))
          IN IF \E a \in attendanceRecords : a.studentId \notin Ids(students[d])
             THEN {}
             ELSE {RowOf(students[d], a.studentId).rollNumber : a \in attendanceRecords}

\* The dates in the order of localeCompare (ISO dates: the order of time).
DateOrder == <<"2025-01-10", "2025-01-11">>

DateRank(dt) == CHOOSE i \in DOMAIN DateOrder : DateOrder[i] = dt

RECURSIVE SortOldestFirst(_)
RECURSIVE SortNewestFirst(_)
\* The sort with the comparison turned round: a.localeCompare(b).
SortOldestFirst(S) ==
  IF S = {} THEN <<>>
  ELSE LET m == CHOOSE x \in S : \A y \in S : DateRank(x) <= DateRank(y)
       IN <<m>> \o SortOldestFirst(S \ {m})

\* Array.from(dates).sort((a, b) => b.localeCompare(a)): the latest date first.
SortNewestFirst(S) ==
  IF S = {} THEN <<>>
  ELSE LET m == CHOOSE x \in S : \A y \in S : DateRank(y) <= DateRank(x)
       IN <<m>> \o SortNewestFirst(S \ {m})

\* getAttendanceDates: the set of the dates of the class's rows, sorted.
getAttendanceDates(d, className) ==
  LET userId == getCurrentUserId(d)
      classRecords == ActiveClassesNamed(d, userId, className)
  IN IF userId = NoUser \/ Len(classRecords) = 0 THEN <<>>
     ELSE SortNewestFirst(
            {a.date : a \in {r \in Range(attendance[d]) : r.classId = classRecords[1].id}})

\* The student names in the order of localeCompare.
StudentNameOrder == <<"Alice", "Bob">>

StudentNameRank(n) == CHOOSE i \in DOMAIN StudentNameOrder : StudentNameOrder[i] = n

RECURSIVE SortByName(_)
\* Array.prototype.sort((a, b) => a.name.localeCompare(b.name)): a stable sort.
SortByName(q) ==
  IF q = <<>> THEN <<>>
  ELSE LET i == CHOOSE k \in DOMAIN q :
                  /\ \A j \in DOMAIN q : StudentNameRank(q[k].name) <= StudentNameRank(q[j].name)
                  /\ \A j \in 1..(k - 1) : q[j].name # q[k].name
       IN <<q[i]>> \o SortByName(SubSeq(q, 1, i - 1) \o SubSeq(q, i + 1, Len(q)))

\* getStudents: id, name and rollNumber of the active students of the owner's class,
\* sorted by name.
getStudents(d, className) ==
  LET userId == getCurrentUserId(d)
      classRecords == ActiveClassesNamed(d, userId, className)
  IN IF userId = NoUser \/ Len(classRecords) = 0 THEN <<>>
     ELSE LET st == ActiveStudentsOf(d, classRecords[1].id)
          IN SortByName([i \in DOMAIN st |->
                           [id |-> st[i].id, name |-> st[i].name,
                            rollNumber |-> st[i].rollNumber]])

\* ------------------------------------------------------------------ remote store
\* classes: PRIMARY KEY id, UNIQUE (user_id, name, is_deleted), and the row level
\* security policy (a row of another owner cannot be updated).
ClassUpsertOk(rc, row) ==
  /\ ~\E r \in rc : /\ r.id # row.id
                    /\ r.user_id = row.user_id
                    /\ r.name = row.name
                    /\ r.is_deleted = row.is_deleted
  /\ ~\E r \in rc : r.id = row.id /\ r.user_id # row.user_id

\* students: REFERENCES classes(id), UNIQUE (class_id, roll_number, is_deleted).
StudentUpsertOk(rs, rc, row) ==
  /\ \E c \in rc : c.id = row.class_id
  /\ ~\E r \in rs : /\ r.id # row.id
                    /\ r.class_id = row.class_id
                    /\ r.roll_number = row.roll_number
                    /\ r.is_deleted = row.is_deleted

\* attendance: REFERENCES students(id) and classes(id), CHECK (status IN ('present',
\* 'late')), UNIQUE (student_id, class_id, date).
AttendanceUpsertOk(ra, rs, rc, row) ==
  /\ \E c \in rc : c.id = row.class_id
  /\ \E st \in rs : st.id = row.student_id
  /\ row.status \in {"present", "late"}
  /\ ~\E r \in ra : /\ r.id # row.id
                    /\ r.student_id = row.student_id
                    /\ r.class_id = row.class_id
                    /\ r.date = row.date

\* upsert(row, { onConflict: 'id' }): the row replaces the one with its id.
Upsert(table, row) == {r \in table : r.id # row.id} \cup {row}

\* ------------------------------------------------------------------ push
RECURSIVE PushStudents(_, _, _)
\* The loop over a class's students: a rejected row is logged and skipped.
PushStudents(studs, rs, rc) ==
  IF studs = <<>> THEN rs
  ELSE LET st == Head(studs)
           row == [id |-> st.id, class_id |-> st.classId, roll_number |-> st.rollNumber,
                   name |-> st.name, is_deleted |-> st.isDeleted]
       IN PushStudents(Tail(studs),
                       IF StudentUpsertOk(rs, rc, row) THEN Upsert(rs, row) ELSE rs, rc)

RECURSIVE PushAttendance(_, _, _, _)
\* The loop that ends at the first rejected attendance upsert.
PushAttendanceUntilError(atts, ra, rs, rc) ==
  IF atts = <<>> THEN ra
  ELSE LET a == Head(atts)
           row == [id |-> a.id, student_id |-> a.studentId, class_id |-> a.classId,
                   date |-> a.date, status |-> a.status]
       IN IF AttendanceUpsertOk(ra, rs, rc, row)
          THEN PushAttendance(Tail(atts), Upsert(ra, row), rs, rc)
          ELSE ra

\* The loop over a class's attendance rows: a rejected row is logged and skipped.
PushAttendance(atts, ra, rs, rc) ==
  IF atts = <<>> THEN ra
  ELSE LET a == Head(atts)
           row == [id |-> a.id, student_id |-> a.studentId, class_id |-> a.classId,
                   date |-> a.date, status |-> a.status]
       IN PushAttendance(Tail(atts),
                         IF AttendanceUpsertOk(ra, rs, rc, row) THEN Upsert(ra, row) ELSE ra,
                         rs, rc)

RECURSIVE PushClasses(_, _, _, _)
\* The loop that ends at the first rejected class upsert (a `throw` in place of the
\* `continue`).
PushClassesUntilConflict(cs, d, userId, R) ==
  IF cs = <<>> THEN R
  ELSE LET classRecord == Head(cs)
           classData == [id |-> classRecord.id, user_id |-> userId,
                         name |-> classRecord.name, is_deleted |-> classRecord.isDeleted]
       IN IF ~ClassUpsertOk(R.c, classData)
          THEN R
          ELSE LET rc == Upsert(R.c, classData)
                   rs == PushStudents(
                           SelectSeq(students[d], LAMBDA st : st.classId = classRecord.id),
                           R.s, rc)
                   ra == PushAttendance(
                           SelectSeq(attendance[d], LAMBDA a : a.classId = classRecord.id),
                           R.a, rs, rc)
               IN PushClasses(Tail(cs), d, userId, [c |-> rc, s |-> rs, a |-> ra])

\* The loop of pushToSupabase over the local classes of the user (deleted ones too):
\* a class whose upsert is rejected is skipped together with its children.
PushClasses(cs, d, userId, R) ==
  IF cs = <<>> THEN R
  ELSE LET classRecord == Head(cs)
           classData == [id |-> classRecord.id, user_id |-> userId,
                         name |-> classRecord.name, is_deleted |-> classRecord.isDeleted]
       IN IF ~ClassUpsertOk(R.c, classData)
          THEN PushClasses(Tail(cs), d, userId, R)
          ELSE LET rc == Upsert(R.c, classData)
                   rs == PushStudents(
                           SelectSeq(students[d], LAMBDA st : st.classId = classRecord.id),
                           R.s, rc)
                   ra == PushAttendance(
                           SelectSeq(attendance[d], LAMBDA a : a.classId = classRecord.id),
                           R.a, rs, rc)
               IN PushClasses(Tail(cs), d, userId, [c |-> rc, s |-> rs, a |-> ra])

\* pushToSupabase(userId): the remote tables after the push. With the network gone
\* every upsert returns an error, which is logged.
pushToSupabase(d, userId) ==
  IF ~isOnline[d] THEN [c |-> rClasses, s |-> rStudents, a |-> rAttendance]
  ELSE PushClasses(SelectSeq(classes[d], LAMBDA c : c.userId = userId), d, userId,
                   [c |-> rClasses, s |-> rStudents, a |-> rAttendance])

\* setSyncingStatus without the loop over the callbacks.
setSyncingStatusSilently(d, status) ==
  /\ isSyncing' = [isSyncing EXCEPT ![d] = status]
  /\ UNCHANGED heard

\* setSyncingStatus: the flag is set and every callback in syncCallbacks is called
\* with the new status.
setSyncingStatus(d, status) ==
  /\ isSyncing' = [isSyncing EXCEPT ![d] = status]
  /\ heard' = [heard EXCEPT ![d] =
        [cb \in Subscribers |-> IF cb \in syncCallbacks[d] THEN status ELSE heard[d][cb]]]

\* onSyncStatusChange: the callback is added and called at once with the current
\* status.
onSyncStatusChange(d, cb) ==
  /\ cb \notin syncCallbacks[d]
  /\ syncCallbacks' = [syncCallbacks EXCEPT ![d] = @ \cup {cb}]
  /\ heard' = [heard EXCEPT ![d][cb] = isSyncing[d]]
  /\ lastOp' = Op("onSyncStatusChange", "ok", <<d, cb>>)
  /\ UNCHANGED <<session, localVars, remoteVars, syncVars, nextId, deleting, replacing,
                 syncCalls, adding>>

\* The function onSyncStatusChange returned: the callback is removed.
unsubscribe(d, cb) ==
  /\ cb \in syncCallbacks[d]
  /\ syncCallbacks' = [syncCallbacks EXCEPT ![d] = @ \ {cb}]
  /\ lastOp' = Op("unsubscribe", "ok", <<d, cb>>)
  /\ UNCHANGED <<session, localVars, remoteVars, syncVars, nextId, deleting, replacing,
                 syncCalls, adding, heard>>

\* syncToCloud up to setSyncingStatus(true). While a push is in flight, while offline
\* or without a user the call does nothing and returns as a completed call does
\* (a bare `return`: the promise resolves).
syncToCloudBegin(d) ==
  /\ IF isSyncing[d] \/ ~isOnline[d] \/ session[d] = NoUser
     THEN /\ lastOp' = Op("syncToCloud", "ok", <<d>>)
          /\ UNCHANGED <<isSyncing, pushUser, heard>>
     ELSE /\ setSyncingStatus(d, TRUE)
          /\ pushUser' = [pushUser EXCEPT ![d] = session[d]]
          /\ lastOp' = Op("syncToCloud", "started", <<d>>)
  /\ UNCHANGED <<session, localVars, remoteVars, isOnline, lastSync, nextId, deleting,
                 replacing, syncCalls, adding, syncCallbacks>>

\* syncToCloud from pushToSupabase to the finally block.
syncToCloudEnd(d) ==
  /\ isSyncing[d]
  /\ LET R == pushToSupabase(d, pushUser[d])
     IN /\ rClasses' = R.c
        /\ rStudents' = R.s
        /\ rAttendance' = R.a
  /\ lastSync' = [lastSync EXCEPT ![d] = TRUE]
  /\ setSyncingStatus(d, FALSE)
  /\ pushUser' = [pushUser EXCEPT ![d] = NoUser]
  /\ lastOp' = Op("syncToCloud", "ok", <<d>>)
  /\ UNCHANGED <<session, localVars, isOnline, nextId, deleting, replacing, syncCalls,
                 adding, syncCallbacks>>

\* One of several syncToCloud calls, step by step. First the guard
\* `if (this.isSyncing || !this.isOnline) return;`, up to the await of the user id.
syncToCloudCheck(d, k) ==
  /\ syncCalls[d][k].pc = "idle"
  /\ IF isSyncing[d] \/ ~isOnline[d]
     THEN /\ lastOp' = Op("syncToCloud", "ok", <<d, k>>)
          /\ UNCHANGED syncCalls
     ELSE /\ syncCalls' = [syncCalls EXCEPT ![d][k].pc = "lookup"]
          /\ lastOp' = Op("syncToCloud", "called", <<d, k>>)
  /\ UNCHANGED <<session, localVars, remoteVars, syncVars, nextId, deleting, replacing,
                 adding, syncCallbacks, heard>>

\* The call goes on when getCurrentUserId has resolved: without a user it returns,
\* with one it calls setSyncingStatus(true) and enters pushToSupabase.
syncToCloudSetStatus(d, k) ==
  /\ syncCalls[d][k].pc = "lookup"
  /\ IF session[d] = NoUser
     THEN /\ syncCalls' = [syncCalls EXCEPT ![d][k] = NoCall]
          /\ lastOp' = Op("syncToCloud", "ok", <<d, k>>)
          /\ UNCHANGED <<isSyncing, heard>>
     ELSE /\ syncCalls' = [syncCalls EXCEPT ![d][k] =
                            [pc |-> "pushing", userId |-> session[d]]]
          /\ setSyncingStatus(d, TRUE)
          /\ lastOp' = Op("syncToCloud", "started", <<d, k>>)
  /\ UNCHANGED <<session, localVars, remoteVars, isOnline, lastSync, pushUser, nextId,
                 deleting, replacing, adding, syncCallbacks>>

\* pushToSupabase and what follows it. When it throws (here: in its query of the
\* local classes, before the first upsert) the catch block throws the error again
\* and LAST_SYNC_KEY is not written; the finally block clears the status either way.
syncToCloudPush(d, k, thrown) ==
  /\ syncCalls[d][k].pc = "pushing"
  /\ IF thrown
     THEN /\ UNCHANGED <<remoteVars, lastSync>>
          /\ lastOp' = Op("syncToCloud", "SyncFailed", <<d, k>>)
     ELSE /\ LET R == pushToSupabase(d, syncCalls[d][k].userId)
             IN /\ rClasses' = R.c
                /\ rStudents' = R.s
                /\ rAttendance' = R.a
          /\ lastSync' = [lastSync EXCEPT ![d] = TRUE]
          /\ lastOp' = Op("syncToCloud", "ok", <<d, k>>)
  /\ setSyncingStatus(d, FALSE)
  /\ syncCalls' = [syncCalls EXCEPT ![d][k] = NoCall]
  /\ UNCHANGED <<session, localVars, isOnline, pushUser, nextId, deleting, replacing,
                 adding, syncCallbacks>>

\* The NetInfo listener with the removed auto-sync put back: a reconnection starts
\* a push when none is running and a user is signed in.
initializeNetworkListenerWithAutoSync(d, isConnected) ==
  /\ isOnline[d] # isConnected
  /\ isOnline' = [isOnline EXCEPT ![d] = isConnected]
  /\ IF isConnected /\ ~isSyncing[d] /\ session[d] # NoUser
     THEN /\ isSyncing' = [isSyncing EXCEPT ![d] = TRUE]
          /\ pushUser' = [pushUser EXCEPT ![d] = session[d]]
     ELSE UNCHANGED <<isSyncing, pushUser>>
  /\ lastOp' = Op("network", "ok", <<d>>)
  /\ UNCHANGED <<session, localVars, remoteVars, lastSync, nextId, deleting, replacing, asyncVars>>

\* The NetInfo listener: only the online flag changes.
initializeNetworkListener(d, isConnected) ==
  /\ isOnline[d] # isConnected
  /\ isOnline' = [isOnline EXCEPT ![d] = isConnected]
  /\ lastOp' = Op("network", "ok", <<d>>)
  /\ UNCHANGED <<session, localVars, remoteVars, isSyncing, lastSync, pushUser, nextId, deleting, replacing, asyncVars>>

\* ------------------------------------------------------------------ pull
RECURSIVE SortById(_)
\* The rows of a select, in identifier order.
SortById(S) ==
  IF S = {} THEN <<>>
  ELSE LET m == CHOOSE r \in S : \A q \in S : r.id <= q.id
       IN <<m>> \o SortById(S \ {m})

RECURSIVE PullStudents(_, _)
\* The loop over a class's cloud students: update the local row with the same id
\* in place, or create one that keeps the remote id.
PullStudents(cloudStudents, stu) ==
  IF cloudStudents = <<>> THEN stu
  ELSE LET cloudStudent == Head(cloudStudents)
       IN PullStudents(Tail(cloudStudents),
            IF cloudStudent.id \in Ids(stu)
            THEN UpdateRow(stu, cloudStudent.id,
                   [name |-> cloudStudent.name, rollNumber |-> cloudStudent.roll_number])
            ELSE Append(stu, [id |-> cloudStudent.id, classId |-> cloudStudent.class_id,
                              rollNumber |-> cloudStudent.roll_number,
                              name |-> cloudStudent.name, isDeleted |-> FALSE]))

RECURSIVE PullAttendance(_, _, _)
\* The loop over a class's cloud attendance rows. A row whose id is held locally by
\* a row marked as deleted can be neither updated nor created again (the id is the
\* primary key of the SQLite table): the write throws and the pull stops there.
PullAttendance(cloudAttendance, att, tomb) ==
  IF cloudAttendance = <<>> THEN [att |-> att, failed |-> FALSE]
  ELSE LET cloudRecord == Head(cloudAttendance)
           row == [id |-> cloudRecord.id, studentId |-> cloudRecord.student_id,
                   classId |-> cloudRecord.class_id, date |-> cloudRecord.date,
                   status |-> cloudRecord.status]
       IN IF cloudRecord.id \in tomb THEN [att |-> att, failed |-> TRUE]
          ELSE PullAttendance(Tail(cloudAttendance),
                 IF cloudRecord.id \in Ids(att)
                 THEN UpdateRow(att, cloudRecord.id, row)
                 ELSE Append(att, row),
                 tomb)

\* The outcome of the selects of one pull: whether the select of the classes returns
\* an error, and the classes whose select of students or of attendance rows does.
NoErrors == [classes |-> FALSE, students |-> {}, attendance |-> {}]

\* Without the network every select returns an error; the first one is thrown.
NetworkErrors(d) == [NoErrors EXCEPT !.classes = ~isOnline[d]]

RECURSIVE PullClasses(_, _, _, _, _)
\* The loop of fetchClassesFromSupabase over the cloud classes, inside database.write:
\* each create and update is committed when it is made. An error of the select of a
\* class's students or attendance rows is logged, and the loop goes on.
PullClasses(cloudClasses, d, userId, errors, L) ==
  IF cloudClasses = <<>> THEN L
  ELSE LET cloudClass == Head(cloudClasses)
           cls == IF cloudClass.id \in Ids(L.cls)
                  THEN UpdateRow(L.cls, cloudClass.id,
                         [name |-> cloudClass.name])
                  ELSE Append(L.cls, [id |-> cloudClass.id, userId |-> userId,
                                      name |-> cloudClass.name, isDeleted |-> FALSE])
           stu == IF cloudClass.id \in errors.students THEN L.stu
                  ELSE PullStudents(
                         SortById({r \in rStudents :
                                     r.class_id = cloudClass.id /\ ~r.is_deleted}),
                         L.stu)
           res == IF cloudClass.id \in errors.attendance
                  THEN [att |-> L.att, failed |-> FALSE]
                  ELSE PullAttendance(
                         SortById({r \in rAttendance : r.class_id = cloudClass.id}),
                         L.att, attTomb[d])
       IN IF res.failed
          THEN [cls |-> cls, stu |-> stu, att |-> res.att, failed |-> TRUE]
          ELSE PullClasses(Tail(cloudClasses), d, userId, errors,
                 [cls |-> cls, stu |-> stu, att |-> res.att, failed |-> FALSE])

\* orphanCount of the migration step: the local classes that have no owner.
orphanCount(cls) == Cardinality({i \in DOMAIN cls : cls[i].userId = NoUser})

\* The migration step left out: every local class keeps its owner field.
AttachNoOrphans(cls, userId) == cls

\* The migration step: local classes without an owner are given to this user.
AttachOrphans(cls, userId) ==
  [i \in DOMAIN cls |-> IF cls[i].userId = NoUser
                        THEN [cls[i] EXCEPT !.userId = userId] ELSE cls[i]]

\* The pull that makes the local store a mirror of the cloud: afterwards the classes
\* of the user that were not fetched are gone, with their students and attendance.
fetchClassesFromSupabaseAsMirror(d, userId, errors) ==
  LET migrated == AttachOrphans(classes[d], userId)
      cloudClasses == SortById({r \in rClasses : r.user_id = userId /\ ~r.is_deleted})
      L0 == [cls |-> migrated, stu |-> students[d], att |-> attendance[d],
             failed |-> FALSE]
      L == PullClasses(cloudClasses, d, userId, errors, L0)
      fetched == {cloudClasses[i].id : i \in DOMAIN cloudClasses}
      gone == {c.id : c \in {x \in Range(L.cls) : x.userId = userId /\ x.id \notin fetched}}
  IN IF errors.classes THEN [L0 EXCEPT !.failed = TRUE]
     ELSE [cls |-> SelectSeq(L.cls, LAMBDA c : c.id \notin gone),
           stu |-> SelectSeq(L.stu, LAMBDA st : st.classId \notin gone),
           att |-> SelectSeq(L.att, LAMBDA at : at.classId \notin gone),
           failed |-> L.failed]

\* The pull that throws when the account has no class in the cloud.
fetchClassesFromSupabaseOrThrow(d, userId, errors) ==
  LET migrated == AttachOrphans(classes[d], userId)
      cloudClasses == SortById({r \in rClasses : r.user_id = userId /\ ~r.is_deleted})
      L0 == [cls |-> migrated, stu |-> students[d], att |-> attendance[d],
             failed |-> FALSE]
  IN IF errors.classes \/ cloudClasses = <<>> THEN [L0 EXCEPT !.failed = TRUE]
     ELSE PullClasses(cloudClasses, d, userId, errors, L0)

\* fetchClassesFromSupabase(userId): the local tables after the pull and whether it
\* threw. An error of the select of the classes is thrown; no cloud class ends the
\* pull normally.
fetchClassesFromSupabase(d, userId, errors) ==
  LET migrated == AttachOrphans(classes[d], userId)
      cloudClasses == SortById({r \in rClasses : r.user_id = userId /\ ~r.is_deleted})
      L0 == [cls |-> migrated, stu |-> students[d], att |-> attendance[d],
             failed |-> FALSE]
  IN IF errors.classes THEN [L0 EXCEPT !.failed = TRUE]
     ELSE PullClasses(cloudClasses, d, userId, errors, L0)

\* The login branch of handleAuth: the session is saved, then the cloud data is
\* fetched; a failed fetch does not block the login.
handleAuthLogin(d, u, errors) ==
  /\ session[d] = NoUser
  /\ session' = [session EXCEPT ![d] = u]
  /\ LET L == fetchClassesFromSupabase(d, u, errors)
     IN /\ classes' = [classes EXCEPT ![d] = L.cls]
        /\ students' = [students EXCEPT ![d] = L.stu]
        /\ attendance' = [attendance EXCEPT ![d] = L.att]
        /\ lastOp' = Op("fetchClassesFromSupabase", IF L.failed THEN "SyncFailed" ELSE "ok",
                        <<d, u, orphanCount(classes[d])>>)
  /\ UNCHANGED <<attTomb, remoteVars, syncVars, nextId, deleting, replacing, asyncVars>>

\* handleAuth when the selects fail only for want of the network.
handleAuth(d, u) == handleAuthLogin(d, u, NetworkErrors(d))

\* handleLogout of the dashboard: the session is removed, the local store stays.
handleLogout(d) ==
  /\ session[d] # NoUser
  /\ session' = [session EXCEPT ![d] = NoUser]
  /\ lastOp' = Op("logout", "ok", <<d>>)
  /\ UNCHANGED <<localVars, remoteVars, syncVars, nextId, deleting, replacing, asyncVars>>

\* ------------------------------------------------------------------ specification
RosterEntries == [rollNumber : Rolls, name : {"Alice"}]

Rosters == UNION {[1..n -> RosterEntries] : n \in 0..MaxRoster}

\* One device that never synchronises: one sign-in, then the class and roster
\* operations of the Mutation API.
NextRoster ==
  \/ \E u \in Users : handleAuth("devA", u)
  \/ \E n \in Names : addClass("devA", n)
  \/ \E o \in Names, n \in Names : renameClass("devA", o, n)
  \/ \E n \in Names : deleteClass("devA", n)
  \/ \E n \in Names, l \in Rosters : setStudents("devA", n, l)
  \/ \E n \in Names, r \in Rolls : addStudent("devA", n, r, "Alice")
  \/ \E n \in Names, r \in Rolls : updateStudentName("devA", n, r, "Bob")
  \/ \E n \in Names, r \in Rolls : deleteStudent("devA", n, r)

SpecRoster == Init /\ [][NextRoster]_vars

\* One device that never synchronises, with one class name: the roster and the
\* attendance operations of the Mutation API.
NextAttend ==
  \/ \E u \in Users : handleAuth("devA", u)
  \/ addClass("devA", "A")
  \/ deleteClass("devA", "A")
  \/ \E l \in Rosters : setStudents("devA", "A", l)
  \/ \E r \in Rolls : addStudent("devA", "A", r, "Alice")
  \/ \E r \in Rolls : deleteStudent("devA", "A", r)
  \/ \E dt \in Dates, P \in SUBSET Rolls : saveAttendance("devA", "A", dt, P)
  \/ \E dt \in Dates : deleteAttendance("devA", "A", dt)

SpecAttend == Init /\ [][NextAttend]_vars

\* One device that synchronises with the cloud: the class operations, one student,
\* push, pull at sign-in, and the network listener.
NextCloud ==
  \/ \E u \in Users : handleAuth("devA", u)
  \/ handleLogout("devA")
  \/ \E n \in Names : addClass("devA", n)
  \/ \E o \in Names, n \in Names : renameClass("devA", o, n)
  \/ \E n \in Names : deleteClass("devA", n)
  \/ \E n \in Names : addStudent("devA", n, "R1", "Alice")
  \/ syncToCloudBegin("devA")
  \/ syncToCloudEnd("devA")
  \/ \E b \in BOOLEAN : initializeNetworkListener("devA", b)

SpecCloud == Init /\ [][NextCloud]_vars

\* Two devices of one account, both reachable, that share one class name and one
\* roll number: roster, attendance, push, and pull at sign-in.
InitOnline ==
  /\ Init!1 /\ Init!2 /\ Init!3 /\ Init!4 /\ Init!5 /\ Init!6 /\ Init!7 /\ Init!8
  /\ Init!9
  /\ isOnline = [d \in Devices |-> TRUE]
  /\ Init!11 /\ Init!12 /\ Init!13 /\ Init!14 /\ Init!15 /\ Init!16 /\ Init!17 /\ Init!18
  /\ Init!19 /\ Init!20

NextTwo ==
  \/ \E d \in Devices, u \in Users : handleAuth(d, u)
  \/ \E d \in Devices : handleLogout(d)
  \/ \E d \in Devices : nextId.classes <= MaxTwoClassId /\ addClass(d, "A")
  \/ \E d \in Devices : addStudent(d, "A", "R1", "Alice")
  \/ \E d \in Devices, P \in SUBSET {"R1"} :
        nextId.attendance <= MaxTwoAttId /\ saveAttendance(d, "A", "2025-01-10", P)
  \/ \E d \in Devices : deleteAttendance(d, "A", "2025-01-10")
  \/ \E d \in Devices : syncToCloudBegin(d)
  \/ \E d \in Devices : syncToCloudEnd(d)

SpecTwo == InitOnline /\ [][NextTwo]_vars

\* One device whose deleteClass runs step by step: reads see the store between the
\* steps, the other writers run while no deleteClass is inside its block.
NextDelete ==
  \/ \E u \in Users : handleAuth("devA", u)
  \/ \E n \in Names : deleting["devA"] = NoDelete /\ addClass("devA", n)
  \/ \E n \in Names, r \in Rolls :
        deleting["devA"] = NoDelete /\ addStudent("devA", n, r, "Alice")
  \/ \E n \in Names, r \in Rolls :
        deleting["devA"] = NoDelete /\ deleteStudent("devA", n, r)
  \/ \E n \in Names : deleteClassBegin("devA", n)
  \/ deleteClassStudent("devA")
  \/ deleteClassEnd("devA")

SpecDelete == Init /\ [][NextDelete]_vars

\* Two devices of one account, both reachable, that share one class name: create,
\* delete, push, and pull at sign-in.
NextShare ==
  \/ \E d \in Devices, u \in Users : handleAuth(d, u)
  \/ \E d \in Devices : handleLogout(d)
  \/ \E d \in Devices : addClass(d, "A")
  \/ \E d \in Devices : deleteClass(d, "A")
  \/ \E d \in Devices : syncToCloudBegin(d)
  \/ \E d \in Devices : syncToCloudEnd(d)

SpecShare == InitOnline /\ [][NextShare]_vars

\* One device, reachable, with one class and one date: roster, attendance and push.
NextPush ==
  \/ \E u \in Users : handleAuth("devA", u)
  \/ addClass("devA", "A")
  \/ \E r \in Rolls : addStudent("devA", "A", r, "Alice")
  \/ \E r \in Rolls : deleteStudent("devA", "A", r)
  \/ \E P \in SUBSET Rolls : saveAttendance("devA", "A", "2025-01-10", P)
  \/ syncToCloudBegin("devA")
  \/ syncToCloudEnd("devA")

SpecPush == InitOnline /\ [][NextPush]_vars

\* One device, reachable, whose store was written by the version of the app that
\* kept no owner with a class: it holds one class without user id. Two accounts sign
\* in and out; each select of a pull may return an error.
PullUsers == {"u1", "u2"}

ClassIds == 1..MaxClassId

\* No select fails, or one does: that of the classes, or that of the students or of
\* the attendance rows of one class.
FetchErrors ==
  {NoErrors, [NoErrors EXCEPT !.classes = TRUE]}
    \cup {[NoErrors EXCEPT !.students = {c}] : c \in ClassIds}
    \cup {[NoErrors EXCEPT !.attendance = {c}] : c \in ClassIds}

InitLegacy ==
  /\ Init!1
  /\ classes = [d \in Devices |->
                  IF d = "devA"
                  THEN <<[id |-> 1, userId |-> NoUser, name |-> "A", isDeleted |-> FALSE]>>
                  ELSE <<>>]
  /\ Init!3 /\ Init!4 /\ Init!5 /\ Init!6 /\ Init!7 /\ Init!8 /\ Init!9
  /\ isOnline = [d \in Devices |-> TRUE]
  /\ Init!11 /\ Init!12
  /\ nextId = [classes |-> 2, students |-> 1, attendance |-> 1]
  /\ Init!14 /\ Init!15 /\ Init!16 /\ Init!17 /\ Init!18
  /\ Init!19 /\ Init!20

NextPull ==
  \/ \E u \in PullUsers, e \in FetchErrors : handleAuthLogin("devA", u, e)
  \/ handleLogout("devA")
  \/ addClass("devA", "B")
  \/ addStudent("devA", "A", "R1", "Alice")
  \/ saveAttendance("devA", "A", "2025-01-10", {"R1"})
  \/ syncToCloudBegin("devA")
  \/ syncToCloudEnd("devA")

SpecPull == InitLegacy /\ [][NextPull]_vars

\* One device that never synchronises, on which the user signs in and out: the nine
\* writes of the Mutation API, called with and without a session, on one class with
\* one roll number and one date. A class name can be empty.
RenameNames == Names \cup {""}

\* A call of one of the nine writes on device d.
WriteCall(d) ==
  \/ nextId.classes <= MaxTwoClassId /\ addClass(d, "A")
  \/ \E o \in RenameNames, n \in RenameNames : renameClass(d, o, n)
  \/ \E n \in Names : deleteClass(d, n)
  \/ setStudents(d, "A", <<[rollNumber |-> "R1", name |-> "Alice"]>>)
  \/ addStudent(d, "A", "R1", "Alice")
  \/ updateStudentName(d, "A", "R1", "Bob")
  \/ deleteStudent(d, "A", "R1")
  \/ nextId.attendance <= MaxTwoAttId /\ saveAttendance(d, "A", "2025-01-10", {"R1"})
  \/ deleteAttendance(d, "A", "2025-01-10")

NextApi ==
  \/ \E u \in Users : handleAuth("devA", u)
  \/ handleLogout("devA")
  \/ WriteCall("devA")

SpecApi == Init /\ [][NextApi]_vars

\* One device that never synchronises, used by two accounts in turn: the class
\* operations of the Mutation API.
NextOwners ==
  \/ \E u \in PullUsers : handleAuth("devA", u)
  \/ handleLogout("devA")
  \/ \E n \in Names : addClass("devA", n)
  \/ \E o \in RenameNames, n \in RenameNames : renameClass("devA", o, n)
  \/ \E n \in Names : deleteClass("devA", n)

SpecOwners == Init /\ [][NextOwners]_vars

\* One device whose setStudents runs step by step: reads see the store between the
\* steps, the other writers run while no setStudents is inside its block.
NextReplace ==
  \/ \E u \in Users : handleAuth("devA", u)
  \/ replacing["devA"] = NoReplace /\ addClass("devA", "A")
  \/ \E r \in Rolls : replacing["devA"] = NoReplace /\ addStudent("devA", "A", r, "Alice")
  \/ \E r \in Rolls : replacing["devA"] = NoReplace /\ deleteStudent("devA", "A", r)
  \/ \E l \in Rosters : setStudentsBegin("devA", "A", l)
  \/ setStudentsStudent("devA")
  \/ setStudentsEnd("devA")

SpecReplace == Init /\ [][NextReplace]_vars

\* One device used by two accounts in turn, with the network up. Each account creates
\* one class named "A", adds a student with roll number R1 to it, saves the attendance
\* of one date and pushes until the cloud holds a class of its own; the account u1 also
\* calls the other six writes. The writes are called by a signed-in user while no push
\* is running, and the names are changed before the first attendance is saved.
NextIsolate ==
  LET d == "devA"
      Idle == ~isSyncing[d] /\ session[d] # NoUser
      First == session[d] = "u1"
      NoClassYet == ~\E c \in Range(classes[d]) : c.userId = session[d]
      NoAttendanceYet == nextId.attendance = 1
  IN \/ \E u \in PullUsers : handleAuth(d, u)
     \/ Idle /\ handleLogout(d)
     \/ Idle /\ NoClassYet /\ addClass(d, "A")
     \/ Idle /\ First /\ NoAttendanceYet /\ renameClass(d, "A", "B")
     \/ Idle /\ First /\ deleteClass(d, "A")
     \/ Idle /\ First /\ nextId.students <= MaxStudentId
          /\ setStudents(d, "A", <<[rollNumber |-> "R1", name |-> "Alice"]>>)
     \/ Idle /\ nextId.students <= MaxStudentId /\ addStudent(d, "A", "R1", "Alice")
     \/ Idle /\ First /\ NoAttendanceYet /\ updateStudentName(d, "A", "R1", "Bob")
     \/ Idle /\ First /\ deleteStudent(d, "A", "R1")
     \/ Idle /\ nextId.attendance <= MaxTwoAttId
          /\ saveAttendance(d, "A", "2025-01-10", {"R1"})
     \/ Idle /\ First /\ deleteAttendance(d, "A", "2025-01-10")
     \/ (~\E r \in rClasses : r.user_id = session[d]) /\ syncToCloudBegin(d)
     \/ syncToCloudEnd(d)

SpecIsolate == InitOnline /\ [][NextIsolate]_vars

\* One device on which syncToCloud is called several times at once: the calls run
\* step by step and interleave; two components subscribe to the sync status.
NextSync ==
  \/ \E u \in Users : handleAuth("devA", u)
  \/ handleLogout("devA")
  \/ nextId.classes <= MaxTwoClassId /\ addClass("devA", "A")
  \/ \E b \in BOOLEAN : initializeNetworkListener("devA", b)
  \/ \E cb \in Subscribers : onSyncStatusChange("devA", cb)
  \/ \E cb \in Subscribers : unsubscribe("devA", cb)
  \/ \E k \in Calls : syncToCloudCheck("devA", k)
  \/ \E k \in Calls : syncToCloudSetStatus("devA", k)
  \/ \E k \in Calls, thrown \in BOOLEAN : syncToCloudPush("devA", k, thrown)

SpecSync == Init /\ [][NextSync]_vars

\* The same with every remote call returning: a call that is in pushToSupabase goes on
\* to its finally block, and a call that awaits the user id goes on.
SpecSyncFair ==
  /\ Init /\ [][NextSync]_vars
  /\ \A k \in Calls :
       /\ WF_vars(\E thrown \in BOOLEAN : syncToCloudPush("devA", k, thrown))
       /\ WF_vars(syncToCloudSetStatus("devA", k))

\* One device that never synchronises, on which addClass and addStudent are called
\* several times at once: a call can run between the query and the write of another.
NextAdd ==
  \/ \E u \in Users : handleAuth("devA", u)
  \/ \E k \in Calls, n \in Names : addClassQuery("devA", k, n)
  \/ \E k \in Calls : addClassWrite("devA", k)
  \/ \E k \in Calls, r \in Rolls : addStudentQuery("devA", k, "A", r, "Alice")
  \/ \E k \in Calls : addStudentWrite("devA", k)

SpecAdd == Init /\ [][NextAdd]_vars

\* Two devices of one account, both reachable, that share one class: devA creates
\* the class and stays signed in, devB signs in and out (a pull at each sign-in);
\* roster changes and deleteClass on the devices, and pushes.
NextMerge ==
  \/ \E d \in Devices, u \in Users : handleAuth(d, u)
  \/ handleLogout("devB")
  \/ nextId.classes <= MaxTwoClassId /\ addClass("devA", "A")
  \/ \E d \in Devices : nextId.students <= MaxStudentId /\ addStudent(d, "A", "R1", "Alice")
  \/ nextId.students <= MaxStudentId
       /\ setStudents("devA", "A", <<[rollNumber |-> "R2", name |-> "Alice"]>>)
  \/ \E d \in Devices : deleteClass(d, "A")
  \/ \E d \in Devices : syncToCloudBegin(d)
  \/ \E d \in Devices : syncToCloudEnd(d)

SpecMerge == InitOnline /\ [][NextMerge]_vars

\* Two devices of one account, both reachable: devA keeps the roster and the
\* attendance of one class and pushes, devB signs in and out (a pull at each sign-in)
\* and reads.
NextRefs ==
  \/ \E d \in Devices, u \in Users : handleAuth(d, u)
  \/ handleLogout("devB")
  \/ nextId.classes <= MaxTwoClassId /\ addClass("devA", "A")
  \/ nextId.students <= MaxStudentId /\ addStudent("devA", "A", "R1", "Alice")
  \/ deleteStudent("devA", "A", "R1")
  \/ nextId.attendance <= MaxTwoAttId /\ saveAttendance("devA", "A", "2025-01-10", {"R1"})
  \/ syncToCloudBegin("devA")
  \/ syncToCloudEnd("devA")

SpecRefs == InitOnline /\ [][NextRefs]_vars

\* ------------------------------------------------------------------ properties
\* The (studentId, classId, date, status) rows a device stores for a class and date.
AttTuples(d, cid, dt) ==
  {<<a.studentId, a.classId, a.date, a.status>> : a \in Range(AttendanceOn(d, cid, dt))}

\* The class a call on device d resolves a name to: the oldest active class of the
\* signed-in user with that name.
Resolved(d, n) == ActiveClassesNamed(d, session[d], n)[1]

Resolves(d, n) == session[d] # NoUser /\ Len(ActiveClassesNamed(d, session[d], n)) > 0

\* C3: saving the same present set for a class and date twice in a row leaves the
\* same (studentId, classId, date, status) rows, the same number of rows and the
\* same getAttendance result as saving it once.
C3_IdempotentSave ==
  [][(lastOp'.op = "saveAttendance" /\ lastOp'.res = "ok" /\ lastOp'.again) =>
       LET d == lastOp.args[1]
           n == lastOp.args[2]
           dt == lastOp.args[3]
           cid == Resolved(d, n).id
       IN /\ AttTuples(d, cid, dt)' = AttTuples(d, cid, dt)
          /\ Len(AttendanceOn(d, cid, dt)') = Len(AttendanceOn(d, cid, dt))
          /\ getAttendance(d, n, dt)' = getAttendance(d, n, dt)]_vars

\* C3 witness: a second save in a row of a non-empty present set has replaced the
\* rows of the first.
C3_Witness ==
  /\ lastOp.op = "saveAttendance" /\ lastOp.res = "ok" /\ lastOp.again
  /\ lastOp.args[4] # {}
  /\ AttendanceOn(lastOp.args[1], Resolved(lastOp.args[1], lastOp.args[2]).id,
                  lastOp.args[3]) # <<>>
  /\ attTomb[lastOp.args[1]] # {}

\* C5: addClass(n) fails with DuplicateName and changes nothing while an active class
\* of the owner has the name n; otherwise (also when only soft-deleted classes have
\* that name) it appends one active row with a fresh identifier and keeps every row.
C5_UniqueNameWithReuse ==
  [][\A d \in Devices, n \in Names :
       (addClass(d, n) /\ session[d] # NoUser) =>
         IF \E c \in Range(classes[d]) :
              c.userId = session[d] /\ c.name = n /\ ~c.isDeleted
         THEN lastOp'.res = "DuplicateName" /\ UNCHANGED <<localVars, remoteVars>>
         ELSE /\ lastOp'.res = "ok"
              /\ Len(classes'[d]) = Len(classes[d]) + 1
              /\ SubSeq(classes'[d], 1, Len(classes[d])) = classes[d]
              /\ LET new == classes'[d][Len(classes'[d])]
                 IN /\ new.name = n /\ new.userId = session[d] /\ ~new.isDeleted
                    /\ \A e \in Devices : new.id \notin Ids(classes[e])
                    /\ new.id \notin {r.id : r \in rClasses}]_vars

\* C5 witness: a class was created under a name that a soft-deleted class of the
\* same owner still carries.
C5_Witness ==
  /\ lastOp.op = "addClass" /\ lastOp.res = "ok"
  /\ LET d == lastOp.args[1]
         new == classes[d][Len(classes[d])]
     IN \E c \in Range(classes[d]) :
          c.id # new.id /\ c.name = new.name /\ c.userId = new.userId /\ c.isDeleted

\* C7: addStudent fails with DuplicateRollNumber and changes no student row while an
\* active student of the class has the roll number; a soft-deleted student with the
\* roll number does not block the insert.
C7_DuplicateRollRejected ==
  [][\A d \in Devices, n \in Names, r \in Rolls :
       (addStudent(d, n, r, "Alice") /\ Resolves(d, n)) =>
         IF \E st \in Range(students[d]) :
              st.classId = Resolved(d, n).id /\ st.rollNumber = r /\ ~st.isDeleted
         THEN lastOp'.res = "DuplicateRollNumber" /\ UNCHANGED students
         ELSE /\ lastOp'.res = "ok"
              /\ students'[d] = Append(students[d], students'[d][Len(students'[d])])
              /\ LET new == students'[d][Len(students'[d])]
                 IN /\ new.classId = Resolved(d, n).id /\ new.rollNumber = r
                    /\ ~new.isDeleted
                    /\ \A e \in Devices : new.id \notin Ids(students[e])]_vars

\* C7 witness: an insert was rejected in a class that holds the roll number on an
\* active student and on a soft-deleted one.
C7_Witness ==
  /\ lastOp.op = "addStudent" /\ lastOp.res = "DuplicateRollNumber"
  /\ \E d \in Devices : \E a \in Range(students[d]), b \in Range(students[d]) :
       /\ a.classId = b.classId /\ a.rollNumber = b.rollNumber
       /\ ~a.isDeleted /\ b.isDeleted

\* C2: after saveAttendance(class, d, P) with P a subset of the roll numbers of the
\* active roster, getAttendance(class, d) is P and the class has |P| rows for d.
C2_PresenceOnlyRoundTrip ==
  (lastOp.op = "saveAttendance" /\ lastOp.res = "ok") =>
    LET d == lastOp.args[1]
        n == lastOp.args[2]
        dt == lastOp.args[3]
        P == lastOp.args[4]
        cid == Resolved(d, n).id
        roster == Range(ActiveStudentsOf(d, cid))
    IN P \subseteq {st.rollNumber : st \in roster} =>
         /\ getAttendance(d, n, dt) = P
         /\ Len(AttendanceOn(d, cid, dt)) = Cardinality(P)

\* C6: no two active students of one class share a roll number.
C6_UniqueRollNumbers ==
  \A d \in Devices : \A a \in Range(students[d]), b \in Range(students[d]) :
    (a.id # b.id /\ a.classId = b.classId /\ ~a.isDeleted /\ ~b.isDeleted)
      => a.rollNumber # b.rollNumber

\* C1: a successful renameClass(C.name, N), for any active class C of the owner,
\* creates and removes no row, and the row with C's identifier carries the name N
\* afterwards.
C1_RenameStability ==
  [][\A d \in Devices, o \in Names, n \in Names :
       (renameClass(d, o, n) /\ lastOp'.res = "ok") =>
         /\ Ids(classes'[d]) = Ids(classes[d])
         /\ Len(classes'[d]) = Len(classes[d])
         /\ \A C \in Range(classes[d]) :
              (C.userId = session[d] /\ C.name = o /\ ~C.isDeleted)
                => RowOf(classes'[d], C.id) = [C EXCEPT !.name = n]]_vars

\* C4: no two active classes of one owner on a device share a name.
C4_UniqueClassNames ==
  \A d \in Devices : \A a \in Range(classes[d]), b \in Range(classes[d]) :
    (a.id # b.id /\ a.userId = b.userId /\ ~a.isDeleted /\ ~b.isDeleted)
      => a.name # b.name

\* C10: after a successful deleteClass(name), getClasses() does not contain the name,
\* the row is still stored under its identifier with isDeleted = true, and every
\* attendance row is still stored.
C10_SoftDeleteExclusion ==
  [][\A d \in Devices, n \in Names :
       (deleteClass(d, n) /\ lastOp'.res = "ok") =>
         /\ n \notin Range(getClasses(d)')
         /\ RowOf(classes'[d], Resolved(d, n).id) = [Resolved(d, n) EXCEPT !.isDeleted = TRUE]
         /\ attendance' = attendance]_vars

\* C8: a device stores at most one attendance row per (studentId, classId, date).
C8_OneRowPerStudentAndDate ==
  \A d \in Devices : \A a \in Range(attendance[d]), b \in Range(attendance[d]) :
    (a.studentId = b.studentId /\ a.classId = b.classId /\ a.date = b.date)
      => a.id = b.id

C11_DeleteClassAtomic ==
  \A d \in Devices :
    deleting[d] # NoDelete =>
      LET c == RowOf(classes[d], deleting[d].classId)
          studs == {s \in Range(students[d]) : s.id \in deleting[d].all}
      IN \/ ~c.isDeleted /\ \A s \in studs : ~s.isDeleted
         \/ c.isDeleted /\ \A s \in studs : s.isDeleted

\* C12: deleteClass and deleteStudent leave every attendance row as it is, and the
\* attendance rows of a soft-deleted student stay stored after every operation other
\* than a deleteAttendance for their date.
C12_HistoryRetained ==
  [][/\ lastOp'.op \in {"deleteClass", "deleteStudent"} => attendance' = attendance
     /\ \A d \in Devices : \A a \in Range(attendance[d]) :
          (/\ \E s \in Range(students[d]) : s.id = a.studentId /\ s.isDeleted
           /\ ~(/\ lastOp'.op = "deleteAttendance" /\ lastOp'.res = "ok"
                /\ lastOp'.args[3] = a.date))
            => a \in Range(attendance'[d])]_vars

\* C13: a pull (fetchClassesFromSupabase, run by the sign-in) never starts while a
\* push of the device is in progress.
C13_SyncMutualExclusion ==
  [][\A d \in Devices, u \in Users : handleAuth(d, u) => ~isSyncing[d]]_vars

\* C14: a syncToCloud call made while a push is in progress reads and writes nothing,
\* leaves nothing to run later, and returns an outcome other than that of a
\* completed push.
C14_TriggerRejected ==
  [][\A d \in Devices :
       (syncToCloudBegin(d) /\ isSyncing[d]) =>
         /\ UNCHANGED <<localVars, remoteVars, syncVars>>
         /\ lastOp'.res # "ok"]_vars

\* C19: a syncToCloud call made while the device is offline makes no remote call,
\* leaves the local store as it is, and ends with SyncFailed.
C19_OfflinePushFails ==
  [][\A d \in Devices :
       (syncToCloudBegin(d) /\ ~isOnline[d]) =>
         /\ UNCHANGED <<localVars, remoteVars, isSyncing>>
         /\ lastOp'.res = "SyncFailed"]_vars

\* C15: a push that reaches the cloud leaves, for every soft-deleted local class that
\* the cloud already holds, a remote row with that identifier and is_deleted = true.
C15_TombstonePushed ==
  [][\A d \in Devices :
       (syncToCloudEnd(d) /\ isOnline[d]) =>
         \A c \in Range(classes[d]) :
           (/\ c.userId = pushUser[d] /\ c.isDeleted
            /\ \E r \in rClasses : r.id = c.id)
             => \E r \in rClasses' : r.id = c.id /\ r.is_deleted]_vars

\* C16: after a pull that succeeded, every local class whose remote row is a
\* tombstone is soft-deleted on the device, and no push sets a remote tombstone back
\* to is_deleted = false.
C16_DeletionReachesDevices ==
  [][/\ \A d \in Devices, u \in Users :
          (handleAuth(d, u) /\ lastOp'.res = "ok") =>
            \A c \in Range(classes'[d]) :
              (\E r \in rClasses : r.id = c.id /\ r.user_id = u /\ r.is_deleted)
                => c.isDeleted
     /\ \A r \in rClasses :
          r.is_deleted => \E q \in rClasses' : q.id = r.id /\ q.is_deleted]_vars

\* The rows pushToSupabase builds from a local class, student and attendance row.
ClassData(c, userId) ==
  [id |-> c.id, user_id |-> userId, name |-> c.name, is_deleted |-> c.isDeleted]

StudentData(st) ==
  [id |-> st.id, class_id |-> st.classId, roll_number |-> st.rollNumber,
   name |-> st.name, is_deleted |-> st.isDeleted]

AttendanceData(a) ==
  [id |-> a.id, student_id |-> a.studentId, class_id |-> a.classId, date |-> a.date,
   status |-> a.status]

\* The state right after a push of device d that ran to its end with the network up.
PushCompleted(d) ==
  /\ lastOp.op = "syncToCloud" /\ lastOp.res = "ok" /\ lastOp.args = <<d>>
  /\ ~isSyncing[d] /\ isOnline[d] /\ session[d] # NoUser

PushOn(d, userId, R) ==
  PushClasses(SelectSeq(classes[d], LAMBDA c : c.userId = userId), d, userId, R)

\* C20: in every state, for a signed-in device, a second push right after a push
\* (no local mutation in between) leaves the remote tables as the first push left
\* them.
C20_PushIdempotent ==
  \A d \in Devices :
    session[d] # NoUser =>
      LET R0 == [c |-> rClasses, s |-> rStudents, a |-> rAttendance]
          R1 == PushOn(d, session[d], R0)
      IN PushOn(d, session[d], R1) = R1

\* C21: a pull leaves, for every class, student and attendance row it fetched, a local
\* row with the remote identifier (the row that had it, updated in place, or a new
\* one); it creates no row with an identifier that was not fetched, and every row
\* that existed keeps its place and its identifier.
C21_PullPreservesIdentifiers ==
  [][\A d \in Devices, u \in Users :
       (handleAuth(d, u) /\ isOnline[d]) =>
         LET fc == {r \in rClasses : r.user_id = u /\ ~r.is_deleted}
             stops(c) == \E r \in rAttendance : r.class_id = c.id /\ r.id \in attTomb[d]
             reached == {c \in fc : \A c0 \in fc : c0.id < c.id => ~stops(c0)}
             fs == {r \in rStudents : ~r.is_deleted /\ \E c \in reached : r.class_id = c.id}
             fa == {r \in rAttendance : \E c \in reached : r.class_id = c.id}
         IN /\ \A r \in fc : r.id \in Ids(classes'[d])
            /\ \A r \in fs : r.id \in Ids(students'[d])
            /\ \A r \in fa : r.id \in Ids(attendance'[d])
            /\ Ids(classes'[d]) \ Ids(classes[d]) \subseteq {r.id : r \in fc}
            /\ Ids(students'[d]) \ Ids(students[d]) \subseteq {r.id : r \in fs}
            /\ Ids(attendance'[d]) \ Ids(attendance[d]) \subseteq {r.id : r \in fa}
            /\ \A i \in DOMAIN classes[d] :
                 i \in DOMAIN classes'[d] /\ classes'[d][i].id = classes[d][i].id
            /\ \A i \in DOMAIN students[d] :
                 i \in DOMAIN students'[d] /\ students'[d][i].id = students[d][i].id
            /\ \A i \in DOMAIN attendance[d] :
                 i \in DOMAIN attendance'[d] /\ attendance'[d][i].id = attendance[d][i].id]_vars

\* C22: a pull for user u gives every local class without an owner the owner u and
\* leaves the owner of every other class as it is, also when a select of the pull
\* returns an error or the cloud holds no class of u.
C22_OrphanReattachment ==
  [][\A d \in Devices, u \in PullUsers, e \in FetchErrors :
       handleAuthLogin(d, u, e) =>
         \A i \in DOMAIN classes[d] :
           /\ i \in DOMAIN classes'[d]
           /\ classes'[d][i].id = classes[d][i].id
           /\ classes'[d][i].userId =
                IF classes[d][i].userId = NoUser THEN u ELSE classes[d][i].userId]_vars

\* C22 witness: a pull whose select of the classes failed has given the class
\* without an owner to the user who signed in.
C22_Witness ==
  /\ lastOp.op = "fetchClassesFromSupabase" /\ lastOp.res = "SyncFailed"
  /\ lastOp.args[3] > 0
  /\ \A c \in Range(classes[lastOp.args[1]]) : c.userId = lastOp.args[2]

\* C23: a pull for which the cloud returns no class of the user ends without an
\* error and leaves every local class, student and attendance row as it is, but for
\* the owner given to the classes that had none.
C23_EmptyCloudIsNoError ==
  [][\A d \in Devices, u \in PullUsers, e \in FetchErrors :
       (/\ handleAuthLogin(d, u, e)
        /\ ~e.classes
        /\ {r \in rClasses : r.user_id = u /\ ~r.is_deleted} = {}) =>
         /\ lastOp'.res = "ok"
         /\ UNCHANGED <<students, attendance, attTomb>>
         /\ Len(classes'[d]) = Len(classes[d])
         /\ \A i \in DOMAIN classes[d] :
              classes'[d][i] = IF classes[d][i].userId = NoUser
                               THEN [classes[d][i] EXCEPT !.userId = u]
                               ELSE classes[d][i]]_vars

\* C23 witness: a pull has ended without an error on a device that stores classes,
\* students and attendance rows, for a user without an active class in the cloud.
C23_Witness ==
  /\ lastOp.op = "fetchClassesFromSupabase" /\ lastOp.res = "ok"
  /\ {r \in rClasses : r.user_id = lastOp.args[2] /\ ~r.is_deleted} = {}
  /\ \E c \in Range(classes[lastOp.args[1]]) : c.userId = lastOp.args[2]
  /\ students[lastOp.args[1]] # <<>>
  /\ attendance[lastOp.args[1]] # <<>>

\* C24: a pull in which a select returns an error (of the classes, or of the students
\* or attendance rows of a cloud class) ends with SyncFailed, and no class after the
\* one whose select failed is created or updated.
C24_PullAbortsOnError ==
  [][\A d \in Devices, u \in PullUsers, e \in FetchErrors :
       LET fc == {r \in rClasses : r.user_id = u /\ ~r.is_deleted}
           bad == {c \in fc : c.id \in e.students \cup e.attendance}
       IN (handleAuthLogin(d, u, e) /\ (e.classes \/ bad # {})) =>
            /\ lastOp'.res = "SyncFailed"
            /\ \A c \in fc :
                 (e.classes \/ \E b \in bad : b.id < c.id) =>
                   IF c.id \in Ids(classes[d])
                   THEN RowOf(classes'[d], c.id).name = RowOf(classes[d], c.id).name
                   ELSE c.id \notin Ids(classes'[d])]_vars

\* C25 as stated: every write of the Mutation API called without a session fails with
\* NotAuthenticated and leaves the store as it is.
C25_WritesNeedSession ==
  [][\A d \in Devices :
       (WriteCall(d) /\ session[d] = NoUser) =>
         /\ lastOp'.res = "NotAuthenticated"
         /\ UNCHANGED <<localVars, remoteVars>>]_vars

\* C25 amended: every write called without a session leaves the store as it is and
\* fails with NotAuthenticated, but for renameClass, which checks its arguments
\* first: with an empty name it fails with EmptyName, with two equal names it
\* returns without an error.
C25_WritesNeedSessionAfterArguments ==
  [][\A d \in Devices :
       (WriteCall(d) /\ session[d] = NoUser) =>
         /\ UNCHANGED <<localVars, remoteVars>>
         /\ lastOp'.op # "renameClass" => lastOp'.res = "NotAuthenticated"
         /\ \A o \in RenameNames, n \in RenameNames :
              renameClass(d, o, n) =>
                lastOp'.res = IF o = "" \/ n = "" THEN "EmptyName"
                              ELSE IF o = n THEN "noop"
                              ELSE "NotAuthenticated"]_vars

\* C25 witness: a write was refused for want of a session on a device that stores
\* an active class, an active student and an attendance row.
C25_Witness ==
  /\ lastOp.res = "NotAuthenticated"
  /\ \E d \in Devices :
       /\ session[d] = NoUser
       /\ \E c \in Range(classes[d]) : ~c.isDeleted
       /\ \E st \in Range(students[d]) : ~st.isDeleted
       /\ attendance[d] # <<>>

\* C26 as stated: with a session, renameClass(old, new) with old # new and
\* deleteClass(name) fail with NotFound and change nothing when the name resolves to
\* no active class of the user, whatever the state of the new name.
C26_MissingClassNotFound ==
  [][\A d \in Devices :
       session[d] # NoUser =>
         /\ \A o \in Names, n \in Names :
              (renameClass(d, o, n) /\ o # n /\ ~Resolves(d, o)) =>
                lastOp'.res = "NotFound" /\ UNCHANGED <<localVars, remoteVars>>
         /\ \A n \in Names :
              (deleteClass(d, n) /\ ~Resolves(d, n)) =>
                lastOp'.res = "NotFound" /\ UNCHANGED <<localVars, remoteVars>>]_vars

\* C26 amended: with a session, deleteClass(name) fails with NotFound when the name
\* resolves to no active class of the user; renameClass(old, new) with old # new and
\* such an old name fails with DuplicateName when an active class of the user has
\* the new name and with NotFound otherwise; the store stays as it is.
C26_MissingClassNotFoundAfterDuplicate ==
  [][\A d \in Devices :
       session[d] # NoUser =>
         /\ \A o \in Names, n \in Names :
              (renameClass(d, o, n) /\ o # n /\ ~Resolves(d, o)) =>
                /\ lastOp'.res = IF Resolves(d, n) THEN "DuplicateName" ELSE "NotFound"
                /\ UNCHANGED <<localVars, remoteVars>>
         /\ \A n \in Names :
              (deleteClass(d, n) /\ ~Resolves(d, n)) =>
                lastOp'.res = "NotFound" /\ UNCHANGED <<localVars, remoteVars>>]_vars

\* C26 witness: a rename failed with NotFound on a device where the only classes are
\* a soft-deleted class of the user and an active class of another user.
C26_Witness ==
  /\ lastOp.op = "renameClass" /\ lastOp.res = "NotFound"
  /\ \E d \in Devices :
       /\ session[d] # NoUser
       /\ \E c \in Range(classes[d]) : c.userId = session[d] /\ c.isDeleted
       /\ \E c \in Range(classes[d]) : c.userId \notin {session[d], NoUser} /\ ~c.isDeleted
       /\ \A n \in Names : ~Resolves(d, n)

\* The (rollNumber, name) entries of the active students of a class, in row order.
ActiveRoster(stu, cid) ==
  LET act == SelectSeq(stu, LAMBDA st : st.classId = cid /\ ~st.isDeleted)
  IN [i \in DOMAIN act |-> [rollNumber |-> act[i].rollNumber, name |-> act[i].name]]

\* C27: setStudents replaces the active roster as one step: when it ends, the active
\* students of the class are the entries of the roster, one row each, and the
\* students that were active are still stored, soft-deleted; while it runs, a read
\* finds either every old student active or the replacement complete.
C27_SetStudentsAtomic ==
  [][\A d \in Devices :
       /\ setStudentsEnd(d) =>
            /\ ActiveRoster(students'[d], replacing[d].classId) = replacing[d].list
            /\ \A id \in replacing[d].all :
                 id \in Ids(students'[d]) /\ RowOf(students'[d], id).isDeleted
       /\ replacing'[d] # NoReplace =>
            LET old == {st \in Range(students'[d]) : st.id \in replacing'[d].all}
            IN \/ \A st \in old : ~st.isDeleted
               \/ /\ \A st \in old : st.isDeleted
                  /\ ActiveRoster(students'[d], replacing'[d].classId)
                       = replacing'[d].list]_vars

\* The roll numbers of the students that the attendance rows of a sequence name.
RollNumbersOf(atts, stu) ==
  {RowOf(stu, atts[i].studentId).rollNumber : i \in DOMAIN atts}

\* C28: after a successful saveAttendance(class, dt, P), for any set P, no attendance
\* row that the class had for dt is left, the class has exactly one row for dt per
\* roll number in P, and the rows of other dates and classes are as before.
C28_SaveReplacesDate ==
  [][\A d \in Devices, n \in Names, dt \in Dates, P \in SUBSET Rolls :
       (saveAttendance(d, n, dt, P) /\ lastOp'.res = "ok") =>
         LET cid == Resolved(d, n).id
             after == SelectSeq(attendance'[d], LAMBDA a : a.classId = cid /\ a.date = dt)
         IN /\ Ids(after) \cap Ids(AttendanceOn(d, cid, dt)) = {}
            /\ Len(after) = Cardinality(P)
            /\ RollNumbersOf(after, students[d]) = P
            /\ SelectSeq(attendance'[d], LAMBDA a : ~(a.classId = cid /\ a.date = dt))
                 = SelectSeq(attendance[d], LAMBDA a : ~(a.classId = cid /\ a.date = dt))]_vars

\* C29: deleteAttendance(class, dt) on a class that resolves leaves no attendance row
\* of the class for dt, so that getAttendance(class, dt) is empty, and leaves the
\* rows of other dates and classes and every class and student row as they are.
C29_DeleteAttendanceFrame ==
  [][\A d \in Devices, n \in Names, dt \in Dates :
       (deleteAttendance(d, n, dt) /\ Resolves(d, n)) =>
         LET cid == Resolved(d, n).id
         IN /\ SelectSeq(attendance'[d], LAMBDA a : a.classId = cid /\ a.date = dt) = <<>>
            /\ getAttendance(d, n, dt)' = {}
            /\ SelectSeq(attendance'[d], LAMBDA a : ~(a.classId = cid /\ a.date = dt))
                 = SelectSeq(attendance[d], LAMBDA a : ~(a.classId = cid /\ a.date = dt))
            /\ UNCHANGED <<classes, students>>]_vars

\* C29 witness: after a deleteAttendance the class has no row for the date, rows of
\* the other date are stored, and rows have been marked as deleted.
C29_Witness ==
  /\ lastOp.op = "deleteAttendance" /\ lastOp.res = "ok"
  /\ LET d == lastOp.args[1]
         cid == Resolved(d, lastOp.args[2]).id
     IN /\ AttendanceOn(d, cid, lastOp.args[3]) = <<>>
        /\ \E a \in Range(attendance[d]) : a.classId = cid /\ a.date # lastOp.args[3]
        /\ attTomb[d] # {}

\* C30: getAttendanceDates(class) holds a date once when the class has a row for it
\* and not at all otherwise, with a later date before an earlier one; right after
\* deleteAttendance(class, dt) it does not hold dt.
C30_AttendanceDates ==
  /\ \A d \in Devices, n \in Names :
       Resolves(d, n) =>
         LET res == getAttendanceDates(d, n)
             cid == Resolved(d, n).id
         IN /\ \A dt \in Dates :
                 Cardinality({i \in DOMAIN res : res[i] = dt})
                   = IF \E a \in Range(attendance[d]) : a.classId = cid /\ a.date = dt
                     THEN 1 ELSE 0
            /\ Range(res) \subseteq Dates
            /\ \A i \in DOMAIN res, j \in DOMAIN res :
                 i < j => DateRank(res[i]) > DateRank(res[j])
  /\ (lastOp.op = "deleteAttendance" /\ lastOp.res = "ok") =>
       lastOp.args[3] \notin Range(getAttendanceDates(lastOp.args[1], lastOp.args[2]))

\* C30 witness: the result holds two dates while the class has more rows than dates
\* and rows have been marked as deleted.
C30_Witness ==
  \E d \in Devices, n \in Names :
    /\ Resolves(d, n)
    /\ Len(getAttendanceDates(d, n)) = 2
    /\ Len(SelectSeq(attendance[d], LAMBDA a : a.classId = Resolved(d, n).id)) > 2
    /\ attTomb[d] # {}

MutationOps ==
  {"addClass", "renameClass", "deleteClass", "setStudents", "addStudent",
   "updateStudentName", "deleteStudent", "saveAttendance", "deleteAttendance"}

\* The identifiers of the classes device d stores for owner u.
OwnedBy(d, u) == {c.id : c \in {x \in Range(classes[d]) : x.userId = u}}

\* The rows device d stores for the classes of the owners other than u.
RowsOfOthers(d, u) ==
  <<SelectSeq(classes[d], LAMBDA c : c.userId # u),
    SelectSeq(students[d], LAMBDA st : st.classId \notin OwnedBy(d, u)),
    SelectSeq(attendance[d], LAMBDA a : a.classId \notin OwnedBy(d, u))>>

\* Every read made under the session identity of d returns data of its own classes.
ReadsOwnDataOnly(d) ==
  LET u == session[d]
      own == OwnedBy(d, u)
      ownActive == {c \in Range(classes[d]) : c.userId = u /\ ~c.isDeleted}
  IN /\ Len(getClasses(d)) = Cardinality(ownActive)
     /\ Range(getClasses(d)) = {c.name : c \in ownActive}
     /\ \A n \in Names :
          /\ \A r \in Range(getStudents(d, n)) : RowOf(students[d], r.id).classId \in own
          /\ \A dt \in Dates :
               getAttendance(d, n, dt) \subseteq
                 {RowOf(students[d], a.studentId).rollNumber :
                    a \in {x \in Range(attendance[d]) :
                            x.classId \in own /\ x.date = dt
                              /\ x.studentId \in Ids(students[d])}}
          /\ Range(getAttendanceDates(d, n)) \subseteq
               {a.date : a \in {x \in Range(attendance[d]) : x.classId \in own}}

C33_RemoteAttendanceMatchesLocal ==
  [][\A d \in Devices :
       (syncToCloudEnd(d) /\ isOnline[d]) =>
         \A c \in Range(classes[d]) :
           (c.userId = pushUser[d] /\ ClassData(c, pushUser[d]) \in rClasses') =>
             \A dt \in Dates :
               {r.student_id : r \in {x \in rAttendance' :
                                        x.class_id = c.id /\ x.date = dt}}
                 = {a.studentId : a \in Range(AttendanceOn(d, c.id, dt))}]_vars

\* C34: at most one push is in flight: on no device are two syncToCloud calls inside
\* pushToSupabase at the same time.
C34_AtMostOnePush ==
  \A d \in Devices :
    Cardinality({k \in Calls : syncCalls[d][k].pc = "pushing"}) <= 1

\* C35: every syncToCloud call that has set the syncing status to true sets it back
\* to false, whether pushToSupabase returns or throws, and the status does not stay
\* true forever; each time the status is set, every registered subscriber is called
\* with the new value (true when a call enters pushToSupabase, false when it leaves);
\* and the last-sync time is written only by a call whose pushToSupabase returned.
C35_PushAlwaysEnds ==
  /\ \A d \in Devices, k \in Calls :
       (syncCalls[d][k].pc = "pushing") ~> (syncCalls[d][k].pc = "idle")
  /\ \A d \in Devices : isSyncing[d] ~> ~isSyncing[d]
  /\ [][\A d \in Devices :
          /\ \A k \in Calls :
               /\ (syncCalls[d][k].pc # "pushing" /\ syncCalls'[d][k].pc = "pushing") =>
                    /\ isSyncing'[d]
                    /\ \A cb \in syncCallbacks[d] : heard'[d][cb] = TRUE
               /\ (syncCalls[d][k].pc = "pushing" /\ syncCalls'[d][k].pc # "pushing") =>
                    /\ ~isSyncing'[d]
                    /\ \A cb \in syncCallbacks[d] : heard'[d][cb] = FALSE
                    /\ lastOp'.res \in {"ok", "SyncFailed"}
                    /\ lastOp'.res = "SyncFailed" => lastSync'[d] = lastSync[d]
          /\ isSyncing'[d] # isSyncing[d] =>
               \A cb \in syncCallbacks[d] : heard'[d][cb] = isSyncing'[d]
          /\ lastSync'[d] # lastSync[d] =>
               /\ lastOp'.op = "syncToCloud" /\ lastOp'.res = "ok"
               /\ \E k \in Calls : syncCalls[d][k].pc = "pushing"
                                    /\ syncCalls'[d][k].pc = "idle"]_vars

\* A push has thrown while both components were subscribed: the status is false
\* again, both were told so, and no sync time has been written.
C35_Witness ==
  /\ lastOp.op = "syncToCloud" /\ lastOp.res = "SyncFailed"
  /\ ~isSyncing["devA"] /\ ~lastSync["devA"]
  /\ syncCallbacks["devA"] = Subscribers
  /\ \A cb \in Subscribers : heard["devA"][cb] = FALSE

\* C36: under every interleaving of concurrent addClass calls and of concurrent
\* addStudent calls, no owner has two active classes of one name and no class has two
\* active students of one roll number (of two calls with the same name or roll number
\* at most one inserts a row).
C36_ConcurrentAddsUnique ==
  \A d \in Devices :
    /\ \A i \in DOMAIN classes[d], j \in DOMAIN classes[d] :
         (/\ i # j
          /\ ~classes[d][i].isDeleted /\ ~classes[d][j].isDeleted
          /\ classes[d][i].userId = classes[d][j].userId)
           => classes[d][i].name # classes[d][j].name
    /\ \A i \in DOMAIN students[d], j \in DOMAIN students[d] :
         (/\ i # j
          /\ ~students[d][i].isDeleted /\ ~students[d][j].isDeleted
          /\ students[d][i].classId = students[d][j].classId)
           => students[d][i].rollNumber # students[d][j].rollNumber

\* C37: in every reachable state no active student belongs to a soft-deleted class.
C37_NoActiveStudentInDeletedClass ==
  \A d \in Devices :
    \A st \in Range(students[d]) :
      ~st.isDeleted =>
        ~\E c \in Range(classes[d]) : c.id = st.classId /\ c.isDeleted

\* C38: in every reachable state the studentId of every attendance row a device
\* stores is the id of a student row of that device, and getAttendance of a signed-in
\* user reports a roll number for every class and date of which rows are stored.
C38_AttendanceRefersToStudent ==
  \A d \in Devices :
    /\ \A a \in Range(attendance[d]) : a.studentId \in Ids(students[d])
    /\ \A n \in Names, dt \in Dates :
         (Resolves(d, n) /\ Len(AttendanceOn(d, Resolved(d, n).id, dt)) > 0) =>
           getAttendance(d, n, dt) # {}

\* C39: soft-delete is monotone. In every step (a call of the Mutation API, a push,
\* a pull, a sign-in or sign-out) every class row and every student row of a device
\* stays in its table with its identifier, and a row that has isDeleted = true keeps
\* it; and every remote class or student row that has is_deleted = true is still
\* stored with is_deleted = true after the step.
C39_SoftDeleteMonotone ==
  [][/\ \A d \in Devices :
          /\ Len(classes'[d]) >= Len(classes[d])
          /\ \A i \in DOMAIN classes[d] :
               /\ classes'[d][i].id = classes[d][i].id
               /\ classes[d][i].isDeleted => classes'[d][i].isDeleted
          /\ Len(students'[d]) >= Len(students[d])
          /\ \A i \in DOMAIN students[d] :
               /\ students'[d][i].id = students[d][i].id
               /\ students[d][i].isDeleted => students'[d][i].isDeleted
     /\ \A r \in rClasses :
          r.is_deleted => \E q \in rClasses' : q.id = r.id /\ q.is_deleted
     /\ \A r \in rStudents :
          r.is_deleted => \E q \in rStudents' : q.id = r.id /\ q.is_deleted]_vars

\* The identifiers of the remote rows a pull for userId can fetch: the active classes
\* of the user, the active students of these classes and their attendance rows.
FetchedIds(userId) ==
  LET cls == {r.id : r \in {x \in rClasses : x.user_id = userId /\ ~x.is_deleted}}
  IN [classes |-> cls,
      students |-> {r.id : r \in {x \in rStudents : x.class_id \in cls /\ ~x.is_deleted}},
      attendance |-> {r.id : r \in {x \in rAttendance : x.class_id \in cls}}]

\* C40: a pull only adds or updates. It leaves every local row in its table with its
\* identifier and its deletion flag, removes no attendance row, and leaves every local
\* class, student and attendance row whose identifier is not among the fetched remote
\* rows as it was, apart from the owner given to a class that had none.
C40_PullOnlyAddsOrUpdates ==
  [][\A d \in Devices, u \in PullUsers, e \in FetchErrors :
       handleAuthLogin(d, u, e) =>
         LET F == FetchedIds(u)
         IN /\ Len(classes'[d]) >= Len(classes[d])
            /\ Len(students'[d]) >= Len(students[d])
            /\ Len(attendance'[d]) >= Len(attendance[d])
            /\ attTomb'[d] = attTomb[d]
            /\ \A i \in DOMAIN classes[d] :
                 /\ classes'[d][i].id = classes[d][i].id
                 /\ classes'[d][i].isDeleted = classes[d][i].isDeleted
                 /\ classes[d][i].id \notin F.classes =>
                      classes'[d][i] =
                        IF classes[d][i].userId = NoUser
                        THEN [classes[d][i] EXCEPT !.userId = u]
                        ELSE classes[d][i]
            /\ \A i \in DOMAIN students[d] :
                 /\ students'[d][i].id = students[d][i].id
                 /\ students'[d][i].isDeleted = students[d][i].isDeleted
                 /\ students[d][i].id \notin F.students =>
                      students'[d][i] = students[d][i]
            /\ \A i \in DOMAIN attendance[d] :
                 /\ attendance'[d][i].id = attendance[d][i].id
                 /\ attendance[d][i].id \notin F.attendance =>
                      attendance'[d][i] = attendance[d][i]]_vars

\* A pull has fetched a class of the user and the device still holds a class of the
\* user that was never pushed.
C40_Witness ==
  /\ lastOp.op = "fetchClassesFromSupabase" /\ lastOp.res = "ok"
  /\ \E r \in rClasses : r.user_id = session["devA"] /\ ~r.is_deleted
  /\ \E c \in Range(classes["devA"]) :
       /\ c.userId = session["devA"]
       /\ ~\E r \in rClasses : r.id = c.id

====
